---- MODULE Spec2Model ----
(***************************************************************************)
(* A model of the address resolver of pdb-addr2line (src/src/lib.rs):      *)
(* ContextPdbData (the owner of the lazily parsed module contents) and     *)
(* Context (the section contribution index, the public symbol index, the   *)
(* per-module procedure index, the line and inline-range caches and the    *)
(* lookups find_function, find_frames and functions).                      *)
(*                                                                         *)
(* Conventions.  An Option is a sequence of length at most one: <<>> is    *)
(* None and <<x>> is Some(x).  A PdbInternalSectionOffset is a pair        *)
(* <<section, offset>>.  All arithmetic stays far below 2^32.              *)
(***************************************************************************)
EXTENDS Integers, Sequences, FiniteSets, TLC

None == <<>>
Some(x) == <<x>>
IsSome(o) == Len(o) = 1
Unwrap(o) == o[1]

SeqToSet(s) == {s[i] : i \in 1 .. Len(s)}

(***************************************************************************)
(* Bounds of the model.                                                    *)
(***************************************************************************)
\* offsets inside a section run over 0 .. SectionSize - 1
SectionSize == 3
\* longest raw section contribution list fed to the construction
MaxRaw == 3
\* longest public symbol list fed to the construction
MaxPublics == 3
\* longest symbol list between a procedure symbol and its end
MaxSymbols == 3
\* deepest nesting of process_inlinee_symbols calls followed
MaxScopes == 5

Modules == {0, 1}
Sections == {1, 2}
Offsets == 0 .. (SectionSize - 1)

\* names that begin with the marker byte '?'
DecoratedNames == {"?f", "?h", "?t"}
\* a type and an inlinee the formatter fails on
UnformattableTypes == {2}
UnformattableIds == {2}

VARIABLES
    pdb,                    \* the debug data: the input, never changed
    build,                  \* the standard library the program is built with
    source_ok,              \* whether reading a module stream from the Source succeeds now
    context,                \* "none", "ok", or the error of new_from_parts
    section_contributions,  \* Context::section_contributions
    public_functions,       \* Context::public_functions
    module_contents,        \* ContextPdbData::module_contents (its keys)
    parse_count,            \* per module: successful pdb.module_info parses
    module_procedures,      \* Context::module_procedures: module -> Option<Vec>
    procedure_cache,        \* Context::procedure_cache: start offset -> bundle
    extended_module_cache,  \* Context::extended_module_cache (its keys)
    inline_name_cache,      \* Context::inline_name_cache: IdIndex -> Option<name>
    full_rva_list,          \* Context::full_rva_list: Option<Vec<u32>>
    iter,                   \* the FunctionIter in use, and what it has yielded
    res,                    \* the last call and what it returned
    mark,                   \* history: one earlier lookup and what it returned
    symbols_iter            \* the symbol cursor of an inline tree walk in progress

inputVars == <<pdb, build>>
indexVars == <<context, section_contributions, public_functions>>
cacheVars == <<module_contents, parse_count, module_procedures, procedure_cache,
               extended_module_cache, inline_name_cache>>
vars == <<pdb, build, source_ok, context, section_contributions, public_functions,
          module_contents, parse_count, module_procedures, procedure_cache,
          extended_module_cache, inline_name_cache, full_rva_list, iter, res,
          mark, symbols_iter>>

(***************************************************************************)
(* The address translator (external collaborator pdb::AddressMap).  A      *)
(* section is mapped at a base address; translation is base + offset and   *)
(* fails for a section that does not exist and for the internal offsets    *)
(* the map leaves out (pdb.unmapped, part of the input).                   *)
(***************************************************************************)
SectionBase(s) == (s - 1) * (SectionSize + 1) + 1

\* linear addresses a caller probes: every mapped one, the unused address
\* below each section and the one above the last
Addrs == 0 .. (SectionBase(Cardinality(Sections)) + SectionSize)

\* PdbInternalSectionOffset::to_rva
to_rva(off) ==
    IF off[1] \in Sections /\ off \notin pdb.unmapped
    THEN Some(SectionBase(off[1]) + off[2])
    ELSE None

\* Rva::to_internal_offset
to_internal_offset(rva) ==
    LET hits == {s \in Sections :
                    /\ SectionBase(s) <= rva
                    /\ rva < SectionBase(s) + SectionSize
                    /\ <<s, rva - SectionBase(s)>> \notin pdb.unmapped}
    IN  IF hits = {} THEN None
        ELSE LET s == CHOOSE x \in hits : TRUE
             IN  Some(<<s, rva - SectionBase(s)>>)

(***************************************************************************)
(* compute_section_contributions                                           *)
(***************************************************************************)
\* derive(Ord) on ModuleSectionContribution: lexicographic in field order
SCLess(a, b) ==
    \/ a.section_index < b.section_index
    \/ /\ a.section_index = b.section_index
       /\ \/ a.start_offset < b.start_offset
          \/ /\ a.start_offset = b.start_offset
             /\ \/ a.end_offset < b.end_offset
                \/ /\ a.end_offset = b.end_offset
                   /\ a.module_index < b.module_index

NewCombined(sc) ==
    [section_index |-> sc.section,
     start_offset  |-> sc.offset,
     end_offset    |-> sc.offset + sc.size,
     module_index  |-> sc.module]

\* a variant of the inner while loop that also rejects an end offset equal
\* to the current one
RECURSIVE CombineRestEndsIncreasing(_, _, _, _)
CombineRestEndsIncreasing(raw, i, cur, acc) ==
    IF i > Len(raw)
    THEN [error |-> "", spans |-> Append(acc, cur)]
    ELSE LET sc == raw[i]
             end_offset == sc.offset + sc.size
         IN  IF sc.size = 0
             THEN CombineRestEndsIncreasing(raw, i + 1, cur, acc)
             ELSE IF /\ sc.section = cur.section_index
                     /\ sc.module = cur.module_index
                  THEN IF end_offset <= cur.end_offset
                       THEN [error |-> "UnorderedSectionContributions",
                             spans |-> <<>>]
                       ELSE CombineRestEndsIncreasing(raw, i + 1,
                                [cur EXCEPT !.end_offset = end_offset], acc)
                  ELSE CombineRestEndsIncreasing(raw, i + 1, NewCombined(sc),
                                                 Append(acc, cur))

\* the inner while loop: the records after the first nonzero one
RECURSIVE CombineRest(_, _, _, _)
CombineRest(raw, i, cur, acc) ==
    IF i > Len(raw)
    THEN [error |-> "", spans |-> Append(acc, cur)]
    ELSE LET sc == raw[i]
             end_offset == sc.offset + sc.size
         IN  IF sc.size = 0
             THEN CombineRest(raw, i + 1, cur, acc)
             ELSE IF /\ sc.section = cur.section_index
                     /\ sc.module = cur.module_index
                  THEN IF end_offset < cur.end_offset
                       THEN [error |-> "UnorderedSectionContributions",
                             spans |-> <<>>]
                       ELSE CombineRest(raw, i + 1,
                                [cur EXCEPT !.end_offset = end_offset], acc)
                  ELSE CombineRest(raw, i + 1, NewCombined(sc),
                                   Append(acc, cur))

\* the outer while loop: skip zero-size records up to the first nonzero one
RECURSIVE CombineContributions(_, _)
CombineContributions(raw, i) ==
    IF i > Len(raw)
    THEN [error |-> "", spans |-> <<>>]
    ELSE IF raw[i].size = 0
         THEN CombineContributions(raw, i + 1)
         ELSE CombineRest(raw, i + 1, NewCombined(raw[i]), <<>>)

\* section_contributions.sort_unstable(): the order is total, so the result
\* is the one ascending arrangement
RECURSIVE InsertSC(_, _)
InsertSC(sorted, x) ==
    IF sorted = <<>> THEN <<x>>
    ELSE IF SCLess(x, Head(sorted)) THEN <<x>> \o sorted
         ELSE <<Head(sorted)>> \o InsertSC(Tail(sorted), x)

\* a variant of the sort that leaves the spans in the order of the merge
KeepMergeOrder(s) == s

RECURSIVE SortSC(_)
SortSC(s) ==
    IF s = <<>> THEN <<>> ELSE InsertSC(SortSC(Tail(s)), Head(s))

\* a variant of the overlap scan that lets spans of one module overlap
OverlapScanOtherModuleOnly(sorted) ==
    \E i \in 1 .. (Len(sorted) - 1) :
        /\ sorted[i + 1].section_index = sorted[i].section_index
        /\ sorted[i + 1].start_offset < sorted[i].end_offset
        /\ sorted[i + 1].module_index # sorted[i].module_index

\* the scan of adjacent entries: TRUE when it returns the overlap error
OverlapScan(sorted) ==
    \E i \in 1 .. (Len(sorted) - 1) :
        /\ sorted[i + 1].section_index = sorted[i].section_index
        /\ sorted[i + 1].start_offset < sorted[i].end_offset

compute_section_contributions(raw) ==
    LET combined == CombineContributions(raw, 1)
        sorted == SortSC(combined.spans)
    IN  IF combined.error # "" THEN combined
        ELSE IF OverlapScan(sorted)
             THEN [error |-> "OverlappingSectionContributions", spans |-> <<>>]
             ELSE [error |-> "", spans |-> sorted]

(***************************************************************************)
(* The public symbol index of new_from_parts.                              *)
(***************************************************************************)
PairLess(a, b) == a[1] < b[1] \/ (a[1] = b[1] /\ a[2] < b[2])

\* the ascending arrangement of a set of <<section, offset>> pairs
RECURSIVE SortPairs(_)
SortPairs(S) ==
    IF S = {} THEN <<>>
    ELSE LET m == CHOOSE x \in S : \A y \in S : y = x \/ PairLess(x, y)
         IN  <<m>> \o SortPairs(S \ {m})

\* the symbols pushed by the while loop: the Public symbols with function set
PublicFunctionSymbols ==
    {[start_offset |-> p.offset, name |-> p.name] :
        p \in {q \in SeqToSet(pdb.publics) : q.function}}

\* a variant of the index without the dedup: two entries per start offset
PublicIndexesUndeduplicated ==
    LET keys == {p.start_offset : p \in PublicFunctionSymbols}
        order == SortPairs(keys)
        picks == {f \in [keys -> PublicFunctionSymbols] :
                     \A k \in keys : f[k].start_offset = k}
    IN  {[i \in 1 .. (2 * Len(order)) |-> f[order[(i + 1) \div 2]]] : f \in picks}

\* sort_unstable_by_key then dedup_by_key: one entry per start offset, in
\* ascending order.  The sort is unstable, so which of several symbols at one
\* offset comes first, and is the one dedup keeps, is not determined: every
\* choice is a possible index.
PublicIndexes ==
    LET keys == {p.start_offset : p \in PublicFunctionSymbols}
        order == SortPairs(keys)
        picks == {f \in [keys -> PublicFunctionSymbols] :
                     \A k \in keys : f[k].start_offset = k}
    IN  {[i \in 1 .. Len(order) |-> f[order[i]]] : f \in picks}

(***************************************************************************)
(* slice::binary_search_by.  `cmps` is the comparator applied to every     *)
(* element: "Less", "Equal" or "Greater".  The result is                   *)
(* [found, index]: Ok(index) or Err(index), indices counted from 0.  The   *)
(* standard library has shipped two loops; they agree on a slice that is   *)
(* sorted for the comparator and has at most one Equal element, and may    *)
(* differ elsewhere; the variable build says which loop the program has.   *)
(***************************************************************************)
\* the loop with left/right bounds that returns at the first Equal probe
RECURSIVE BinarySearchEarlyExit(_, _, _)
BinarySearchEarlyExit(cmps, left, right) ==
    IF left >= right THEN [found |-> FALSE, index |-> left]
    ELSE LET mid == left + ((right - left) \div 2)
             cmp == cmps[mid + 1]
         IN  IF cmp = "Less" THEN BinarySearchEarlyExit(cmps, mid + 1, right)
             ELSE IF cmp = "Greater" THEN BinarySearchEarlyExit(cmps, left, mid)
             ELSE [found |-> TRUE, index |-> mid]

\* the loop that halves `size` around `base` and compares for Equal at the end
RECURSIVE BinarySearchHalving(_, _, _)
BinarySearchHalving(cmps, base, size) ==
    IF size > 1
    THEN LET half == size \div 2
             mid == base + half
         IN  BinarySearchHalving(cmps,
                 IF cmps[mid + 1] = "Greater" THEN base ELSE mid, size - half)
    ELSE LET cmp == cmps[base + 1]
         IN  IF cmp = "Equal" THEN [found |-> TRUE, index |-> base]
             ELSE [found |-> FALSE,
                   index |-> base + (IF cmp = "Less" THEN 1 ELSE 0)]

\* the results the search can give: the one of the loop the build has
binary_search_by(cmps) ==
    IF Len(cmps) = 0 THEN {[found |-> FALSE, index |-> 0]}
    ELSE IF build.binary_search = "early_exit"
    THEN {BinarySearchEarlyExit(cmps, 0, Len(cmps))}
    ELSE {BinarySearchHalving(cmps, 0, Len(cmps))}

\* binary_search_by_key on a slice of keys that are <<section, offset>> pairs
PairKeyCmps(keys, target) ==
    [i \in 1 .. Len(keys) |->
        IF PairLess(keys[i], target) THEN "Less"
        ELSE IF keys[i] = target THEN "Equal" ELSE "Greater"]

(***************************************************************************)
(* The caches as one record, so that the steps of a call can be composed:  *)
(* every step below maps a cache record to its possible outcomes.          *)
(* `failed` is history of the call in progress: the modules whose stream   *)
(* pdb.module_info failed to read.                                         *)
(***************************************************************************)
Caches ==
    [module_contents       |-> module_contents,
     parse_count           |-> parse_count,
     module_procedures     |-> module_procedures,
     procedure_cache       |-> procedure_cache,
     extended_module_cache |-> extended_module_cache,
     inline_name_cache     |-> inline_name_cache,
     failed                |-> {}]

\* a variant of get_module_info that never consults module_contents
GetModuleInfoAlwaysParse(c, module_index) ==
    IF ~source_ok
    THEN [c |-> [c EXCEPT !.failed = @ \cup {module_index}],
          r |-> "Err"]
    ELSE IF pdb.modules[module_index].stream = "absent"
         THEN [c |-> c, r |-> "None"]
         ELSE [c |-> [c EXCEPT !.module_contents = @ \cup {module_index},
                               !.parse_count[module_index] = @ + 1],
               r |-> "Some"]

\* ContextPdbData::get_module_info: "Some", "None" or "Err"
get_module_info(c, module_index) ==
    IF module_index \in c.module_contents
    THEN [c |-> c, r |-> "Some"]
    ELSE GetModuleInfoAlwaysParse(c, module_index)

(***************************************************************************)
(* Context::compute_module_procedures                                      *)
(***************************************************************************)
\* the name kept for a Procedure symbol
ProcedureSymbolName(proc) ==
    IF proc.type_index # 0 THEN proc.name
    ELSE LET keys == [i \in 1 .. Len(public_functions) |->
                         public_functions[i].start_offset]
             \* the search has one result, given the build
             hit == CHOOSE h \in binary_search_by(PairKeyCmps(keys, proc.offset)) : TRUE
         IN  IF hit.found /\ public_functions[hit.index + 1].name \in DecoratedNames
             THEN public_functions[hit.index + 1].name
             ELSE proc.name

\* the entries pushed by the while loop, in symbol order
PushedProcedures(module_index) ==
    LET syms == pdb.modules[module_index].symbols
        wanted == {i \in 1 .. Len(syms) :
                      /\ syms[i].kind \in {"Procedure", "Thunk"}
                      /\ syms[i].len # 0}
    IN  {[offset           |-> syms[i].offset,
          len              |-> syms[i].len,
          name             |-> IF syms[i].kind = "Procedure"
                               THEN ProcedureSymbolName(syms[i])
                               ELSE syms[i].name,
          symbol_index     |-> i,
          end_symbol_index |-> syms[i].end,
          type_index       |-> IF syms[i].kind = "Procedure"
                               THEN syms[i].type_index ELSE 0] : i \in wanted}

\* sort_unstable_by_key then dedup_by_key: one entry per offset, ascending;
\* which of several entries at one offset is kept is not determined
ProcedureIndexes(module_index) ==
    LET pushed == PushedProcedures(module_index)
        keys == {p.offset : p \in pushed}
        order == SortPairs(keys)
        picks == {f \in [keys -> pushed] : \A k \in keys : f[k].offset = k}
    IN  {[i \in 1 .. Len(order) |-> f[order[i]]] : f \in picks}

\* outcomes [c, ok, procedures]
compute_module_procedures(c, module_index) ==
    LET info == get_module_info(c, module_index)
    IN  IF info.r = "Err"
        THEN {[c |-> info.c, ok |-> FALSE, procedures |-> <<>>]}
        ELSE IF info.r = "None"
        THEN {[c |-> info.c, ok |-> TRUE, procedures |-> <<>>]}
        ELSE IF pdb.modules[module_index].stream = "badsyms"
        THEN {[c |-> [info.c EXCEPT !.failed = @ \cup {module_index}],
               ok |-> FALSE, procedures |-> <<>>]}
        ELSE {[c |-> info.c, ok |-> TRUE, procedures |-> ps] :
                 ps \in ProcedureIndexes(module_index)}

\* Context::get_module_procedures: outcomes [c, ok, procedures]
get_module_procedures(c, module_index) ==
    IF IsSome(c.module_procedures[module_index])
    THEN {[c |-> c, ok |-> TRUE,
           procedures |-> Unwrap(c.module_procedures[module_index])]}
    ELSE {IF o.ok
          THEN [o EXCEPT !.c.module_procedures[module_index] = Some(o.procedures)]
          ELSE o : o \in compute_module_procedures(c, module_index)}

(***************************************************************************)
(* Context::lookup_function                                                *)
(***************************************************************************)
SectionContributionCmps(offset) ==
    [i \in 1 .. Len(section_contributions) |->
        LET sc == section_contributions[i]
        IN  IF sc.section_index < offset[1] THEN "Less"
            ELSE IF sc.section_index > offset[1] THEN "Greater"
            ELSE IF sc.end_offset <= offset[2] THEN "Less"
            ELSE IF sc.start_offset > offset[2] THEN "Greater"
            ELSE "Equal"]

\* a variant of the procedure comparator whose end bound is inclusive
ProcedureCmpsEndInclusive(procedures, offset) ==
    [i \in 1 .. Len(procedures) |->
        LET p == procedures[i]
        IN  IF p.offset[1] < offset[1] THEN "Less"
            ELSE IF p.offset[1] > offset[1] THEN "Greater"
            ELSE IF p.offset[2] + p.len < offset[2] THEN "Less"
            ELSE IF p.offset[2] > offset[2] THEN "Greater"
            ELSE "Equal"]

ProcedureCmps(procedures, offset) ==
    [i \in 1 .. Len(procedures) |->
        LET p == procedures[i]
        IN  IF p.offset[1] < offset[1] THEN "Less"
            ELSE IF p.offset[1] > offset[1] THEN "Greater"
            ELSE IF p.offset[2] + p.len <= offset[2] THEN "Less"
            ELSE IF p.offset[2] > offset[2] THEN "Greater"
            ELSE "Equal"]

\* a variant of the fallback that returns the entry found whatever its
\* section
PublicFallbackAnySection(offset) ==
    LET keys == [i \in 1 .. Len(public_functions) |->
                    public_functions[i].start_offset]
    IN  {IF ~hit.found /\ hit.index = 0 THEN None
         ELSE LET i == IF hit.found THEN hit.index ELSE hit.index - 1
              IN  Some([kind |-> "Public", fun |-> public_functions[i + 1]]) :
         hit \in binary_search_by(PairKeyCmps(keys, offset))}

\* the fallback to the public symbols: None or Some([kind |-> "Public", ...])
PublicFallback(offset) ==
    LET keys == [i \in 1 .. Len(public_functions) |->
                    public_functions[i].start_offset]
    IN  {IF ~hit.found /\ hit.index = 0 THEN None
         ELSE LET i == IF hit.found THEN hit.index ELSE hit.index - 1
                  fun == public_functions[i + 1]
              IN  IF fun.start_offset[1] # offset[1] THEN None
                  ELSE Some([kind |-> "Public", fun |-> fun]) :
         hit \in binary_search_by(PairKeyCmps(keys, offset))}

\* a variant of the section-contribution search that, for an offset in no
\* contribution, takes the module of the contribution next to it
OwningModulesNearest(offset) ==
    {IF Len(section_contributions) = 0 THEN None
     ELSE IF hit.index < Len(section_contributions)
     THEN Some(section_contributions[hit.index + 1].module_index)
     ELSE Some(section_contributions[hit.index].module_index) :
     hit \in binary_search_by(SectionContributionCmps(offset))}

\* the module whose section contribution holds the offset, if any
OwningModules(offset) ==
    {IF hit.found THEN Some(section_contributions[hit.index + 1].module_index)
     ELSE None : hit \in binary_search_by(SectionContributionCmps(offset))}

\* outcomes [c, r]: r is None, Some([kind |-> "Public", fun]) or
\* Some([kind |-> "Procedure", module_index, proc])
lookup_function(c, probe) ==
    LET offset == to_internal_offset(probe)
    IN  IF offset = None THEN {[c |-> c, r |-> None]}
        ELSE UNION {
            IF owner = None THEN {[c |-> c, r |-> None]}
            ELSE UNION {
                IF ~mp.ok THEN {[c |-> mp.c, r |-> None]}
                ELSE UNION {
                    IF hit.found
                    THEN {[c |-> mp.c,
                           r |-> Some([kind |-> "Procedure",
                                       module_index |-> Unwrap(owner),
                                       proc |-> mp.procedures[hit.index + 1]])]}
                    ELSE {[c |-> mp.c, r |-> pub] :
                             pub \in PublicFallback(Unwrap(offset))} :
                    hit \in binary_search_by(
                                ProcedureCmps(mp.procedures, Unwrap(offset)))} :
                mp \in get_module_procedures(c, Unwrap(owner))} :
            owner \in OwningModules(Unwrap(offset))}

(***************************************************************************)
(* The per-procedure cache bundle and the formatting collaborator.         *)
(***************************************************************************)
\* TypeFormatter::format_function: the signature text, or an error for a
\* type the formatter cannot render
format_function(name, type_index) ==
    IF type_index \in UnformattableTypes THEN None
    ELSE Some(<<name, type_index>>)

\* TypeFormatter::format_id
format_id(id_index) ==
    IF id_index \in UnformattableIds THEN None
    ELSE Some(<<"inlinee", id_index>>)

EmptyProcedureInfo == [name |-> None, lines |-> None, inline_ranges |-> None]

\* a variant of get_entry_mut that inserts a fresh bundle at every call
GetEntryMutFresh(cache, start_offset) ==
    [k \in DOMAIN cache \cup {start_offset} |->
        IF k = start_offset THEN EmptyProcedureInfo ELSE cache[k]]

\* ProcedureCache::get_entry_mut: the cache with an entry for the offset
get_entry_mut(cache, start_offset) ==
    IF start_offset \in DOMAIN cache THEN cache
    ELSE [k \in DOMAIN cache \cup {start_offset} |->
             IF k = start_offset THEN EmptyProcedureInfo ELSE cache[k]]

compute_procedure_name(proc) == format_function(proc.name, proc.type_index)

\* a variant of get_procedure_name that ignores the cached name
GetProcedureNameUncached(c, proc) ==
    LET cache == get_entry_mut(c.procedure_cache, proc.offset)
        name == compute_procedure_name(proc)
    IN  [c |-> [c EXCEPT !.procedure_cache =
                    [cache EXCEPT ![proc.offset].name = Some(name)]],
         name |-> name]

\* Context::get_procedure_name: [c, name], name an Option
get_procedure_name(c, proc) ==
    LET cache == get_entry_mut(c.procedure_cache, proc.offset)
    IN  IF IsSome(cache[proc.offset].name)
        THEN [c |-> [c EXCEPT !.procedure_cache = cache],
              name |-> Unwrap(cache[proc.offset].name)]
        ELSE GetProcedureNameUncached(c, proc)

(***************************************************************************)
(* Context::find_function.  A call's outcome is [c, result, picked]:       *)
(* result is [status, value] with status "Ok", "Err" or "Panic" and value  *)
(* the Option returned under "Ok"; picked lists, for find_frames, the      *)
(* inline range each inline frame was made from.                           *)
(***************************************************************************)
Ok(c, value) == [c |-> c, result |-> [status |-> "Ok", value |-> value],
                 picked |-> <<>>]
Err(c) == [c |-> c, result |-> [status |-> "Err", value |-> None],
           picked |-> <<>>]
Panic(c) == [c |-> c, result |-> [status |-> "Panic", value |-> None],
             picked |-> <<>>]

find_function(c, probe) ==
    {IF l.r = None THEN Ok(l.c, None)
     ELSE LET func == Unwrap(l.r)
          IN  IF func.kind = "Public"
              THEN LET start_rva == to_rva(func.fun.start_offset)
                   IN  IF start_rva = None THEN Ok(l.c, None)
                       ELSE Ok(l.c, Some([start_rva |-> Unwrap(start_rva),
                                          end_rva   |-> None,
                                          name      |-> Some(func.fun.name)]))
              ELSE LET n == get_procedure_name(l.c, func.proc)
                       start_rva == to_rva(func.proc.offset)
                   IN  IF start_rva = None THEN Ok(n.c, None)
                       ELSE Ok(n.c, Some([start_rva |-> Unwrap(start_rva),
                                          end_rva   |-> Some(Unwrap(start_rva)
                                                             + func.proc.len),
                                          name      |-> n.name])) :
     l \in lookup_function(c, probe)}

(***************************************************************************)
(* The line table of a procedure.                                          *)
(***************************************************************************)
\* Context::get_extended_module_info: [c, r], r "Ok", "Err" or "Panic"
get_extended_module_info(c, module_index) ==
    IF module_index \in c.extended_module_cache THEN [c |-> c, r |-> "Ok"]
    ELSE LET info == get_module_info(c, module_index)
         IN  IF info.r # "Some" THEN [c |-> info.c, r |-> "Panic"]
             ELSE IF pdb.modules[module_index].stream = "badlines"
             THEN [c |-> info.c, r |-> "Err"]
             ELSE [c |-> [info.c EXCEPT !.extended_module_cache =
                                            @ \cup {module_index}],
                   r |-> "Ok"]

\* LineProgram::lines_at_offset: the line records of the block that starts
\* at the procedure's offset
lines_at_offset(module_index, offset) ==
    LET blocks == pdb.modules[module_index].line_program
        at == {i \in 1 .. Len(blocks) : blocks[i].offset = offset}
    IN  IF at = {} THEN <<>>
        ELSE blocks[CHOOSE i \in at : \A j \in at : i <= j].lines

\* Context::compute_procedure_lines: [panic, lines]
compute_procedure_lines(module_index, proc) ==
    LET lines_for_proc == lines_at_offset(module_index, proc.offset)
    IN  IF \E i \in 1 .. Len(lines_for_proc) :
               to_rva(lines_for_proc[i].offset) = None
        THEN [panic |-> TRUE, lines |-> <<>>]
        ELSE [panic |-> FALSE,
              lines |-> [i \in 1 .. Len(lines_for_proc) |->
                  [start_offset |-> Unwrap(to_rva(lines_for_proc[i].offset)),
                   file_index   |-> lines_for_proc[i].file_index,
                   line_start   |-> lines_for_proc[i].line_start]]]

\* Context::get_procedure_lines: [c, panic, lines]
get_procedure_lines(c, module_index, proc) ==
    LET cache == get_entry_mut(c.procedure_cache, proc.offset)
        c1 == [c EXCEPT !.procedure_cache = cache]
    IN  IF IsSome(cache[proc.offset].lines)
        THEN [c |-> c1, panic |-> FALSE, lines |-> Unwrap(cache[proc.offset].lines)]
        ELSE LET computed == compute_procedure_lines(module_index, proc)
             IN  IF computed.panic
                 THEN [c |-> c1, panic |-> TRUE, lines |-> <<>>]
                 ELSE [c |-> [c1 EXCEPT !.procedure_cache[proc.offset].lines =
                                            Some(computed.lines)],
                       panic |-> FALSE, lines |-> computed.lines]

\* Context::resolve_filename
resolve_filename(module_index, file_index) ==
    IF pdb.string_table /\ file_index \in pdb.modules[module_index].files
    THEN Some(<<"file", file_index>>)
    ELSE None

(***************************************************************************)
(* The inline ranges of a procedure: compute_procedure_inline_ranges and   *)
(* process_inlinee_symbols.  A RangeSet<u32> is the set of the addresses   *)
(* it holds.  The symbol cursor is the index of the symbol that            *)
(* SymbolIter::next yields next; skip_to sets it.                          *)
(***************************************************************************)
\* the maximal runs [start, end) of a finite set of addresses, ascending:
\* RangeSet::iter
RECURSIVE RangeSetIter(_)
RangeSetIter(S) ==
    IF S = {} THEN <<>>
    ELSE LET s == CHOOSE x \in S : \A y \in S : x <= y
             e == CHOOSE x \in (s + 1) .. (s + Cardinality(S)) :
                      /\ x \notin S
                      /\ \A y \in s .. (x - 1) : y \in S
         IN  <<<<s, e>>>> \o RangeSetIter(S \ (s .. (e - 1)))

\* the InlineRanges of a site's own line contributions: [panic, lines, ranges,
\* file_index], from contribution i on
RECURSIVE OwnContributions(_, _, _, _)
OwnContributions(site, call_depth, i, acc) ==
    IF i > Len(site.lines) THEN acc
    ELSE LET line_info == site.lines[i]
         IN  IF line_info.length = None \/ line_info.length = Some(0)
             THEN OwnContributions(site, call_depth, i + 1, acc)
             ELSE IF to_rva(line_info.offset) = None
             THEN [acc EXCEPT !.panic = TRUE]
             ELSE LET start_offset == Unwrap(to_rva(line_info.offset))
                      end_offset == start_offset + Unwrap(line_info.length)
                  IN  OwnContributions(site, call_depth, i + 1,
                          [panic |-> FALSE,
                           lines |-> Append(acc.lines,
                               [start_offset |-> start_offset,
                                end_offset   |-> end_offset,
                                call_depth   |-> call_depth,
                                inlinee      |-> site.inlinee,
                                file_index   |-> Some(line_info.file_index),
                                line_start   |-> Some(line_info.line_start)]),
                           ranges |-> acc.ranges \cup (start_offset .. (end_offset - 1)),
                           file_index |-> IF acc.file_index = None
                                          THEN Some(line_info.file_index)
                                          ELSE acc.file_index])

\* a variant of the workaround that pushes the synthesized ranges but
\* returns the site's own interval set
GapPatchOwnRangesReturned(site, call_depth, ranges, callee_ranges, lines, file_index) ==
    IF callee_ranges \subseteq ranges
    THEN [lines |-> lines, ranges |-> ranges]
    ELSE LET runs == RangeSetIter(callee_ranges \ ranges)
         IN  [lines |-> lines \o
                  [k \in 1 .. Len(runs) |->
                      [start_offset |-> runs[k][1],
                       end_offset   |-> runs[k][2],
                       call_depth   |-> call_depth,
                       inlinee      |-> site.inlinee,
                       file_index   |-> file_index,
                       line_start   |-> None]],
              ranges |-> ranges]

\* a variant of the workaround whose synthesized ranges carry no file
GapPatchFileUnknown(site, call_depth, ranges, callee_ranges, lines, file_index) ==
    IF callee_ranges \subseteq ranges
    THEN [lines |-> lines, ranges |-> ranges]
    ELSE LET missing_ranges == callee_ranges \ ranges
             runs == RangeSetIter(missing_ranges)
         IN  [lines |-> lines \o
                  [k \in 1 .. Len(runs) |->
                      [start_offset |-> runs[k][1],
                       end_offset   |-> runs[k][2],
                       call_depth   |-> call_depth,
                       inlinee      |-> site.inlinee,
                       file_index   |-> None,
                       line_start   |-> None]],
              ranges |-> ranges \cup missing_ranges]

\* the workaround for bad debug info at the end of process_inlinee_symbols:
\* [lines, ranges]
GapPatch(site, call_depth, ranges, callee_ranges, lines, file_index) ==
    IF callee_ranges \subseteq ranges
    THEN [lines |-> lines, ranges |-> ranges]
    ELSE LET missing_ranges == callee_ranges \ ranges
             runs == RangeSetIter(missing_ranges)
         IN  [lines |-> lines \o
                  [k \in 1 .. Len(runs) |->
                      [start_offset |-> runs[k][1],
                       end_offset   |-> runs[k][2],
                       call_depth   |-> call_depth,
                       inlinee      |-> site.inlinee,
                       file_index   |-> file_index,
                       line_start   |-> None]],
              ranges |-> ranges \cup missing_ranges]

\* SymbolIter::skip_to(index): seek to the symbol at the index, wherever the
\* cursor stands (index 0: to the end of the stream), and read that symbol;
\* the result is the cursor afterwards
skip_to(symbols, index) ==
    IF index = 0 \/ index > Len(symbols) THEN Len(symbols) + 1 ELSE index + 1

\* process_inlinee_symbols and its while loop over the nested symbols.
\* Both return [panic, lines, ranges, cursor].
RECURSIVE process_inlinee_symbols(_, _, _, _, _), NestedSymbols(_, _, _, _, _, _)
process_inlinee_symbols(module_index, cursor, site, call_depth, lines) ==
    LET own == IF site.inlinee \in pdb.modules[module_index].inlinees
               THEN OwnContributions(site, call_depth, 1,
                        [panic |-> FALSE, lines |-> lines, ranges |-> {},
                         file_index |-> None])
               ELSE [panic |-> FALSE, lines |-> lines, ranges |-> {},
                     file_index |-> None]
    IN  IF own.panic
        THEN [panic |-> TRUE, lines |-> lines, ranges |-> {}, cursor |-> cursor]
        ELSE LET nested == NestedSymbols(module_index, cursor, site.end,
                                         call_depth + 1, own.lines, {})
             IN  IF nested.panic THEN nested
                 ELSE LET patched == GapPatch(site, call_depth, own.ranges,
                                         nested.ranges, nested.lines,
                                         own.file_index)
                      IN  [panic |-> FALSE, lines |-> patched.lines,
                           ranges |-> patched.ranges, cursor |-> nested.cursor]

\* the loop `while let Some(symbol) = symbols_iter.next()` up to end_index;
\* the sites found are processed at call_depth and their ranges united
NestedSymbols(module_index, cursor, end_index, call_depth, lines, callee_ranges) ==
    LET syms == pdb.modules[module_index].symbols
    IN  IF cursor > Len(syms)
        THEN [panic |-> FALSE, lines |-> lines, ranges |-> callee_ranges,
              cursor |-> cursor]
        ELSE IF cursor >= end_index
        THEN [panic |-> FALSE, lines |-> lines, ranges |-> callee_ranges,
              cursor |-> cursor + 1]
        ELSE IF syms[cursor].kind = "Procedure"
        THEN NestedSymbols(module_index, skip_to(syms, syms[cursor].end),
                           end_index, call_depth, lines, callee_ranges)
        ELSE IF syms[cursor].kind = "InlineSite"
        THEN LET r == process_inlinee_symbols(module_index, cursor + 1,
                          syms[cursor], call_depth, lines)
             IN  IF r.panic THEN r
                 ELSE NestedSymbols(module_index, r.cursor, end_index,
                          call_depth, r.lines, callee_ranges \cup r.ranges)
        ELSE NestedSymbols(module_index, cursor + 1, end_index, call_depth,
                           lines, callee_ranges)

InlineRangeLess(r1, r2) ==
    \/ r1.call_depth < r2.call_depth
    \/ r1.call_depth = r2.call_depth /\ r1.start_offset < r2.start_offset

\* lines.sort_unstable_by: every arrangement of the positions I of `lines`
\* that ascends by (call_depth, start_offset); ranges that compare Equal may
\* come in either order
RECURSIVE SortedArrangements(_, _)
SortedArrangements(lines, I) ==
    IF I = {} THEN {<<>>}
    ELSE UNION {{<<lines[i]>> \o rest : rest \in SortedArrangements(lines, I \ {i})} :
                i \in {j \in I : \A k \in I : ~InlineRangeLess(lines[k], lines[j])}}

\* Context::compute_procedure_inline_ranges: outcomes [panic, inline_ranges]
compute_procedure_inline_ranges(module_index, proc) ==
    LET walk == NestedSymbols(module_index, proc.symbol_index + 1,
                              proc.end_symbol_index, 0, <<>>, {})
    IN  IF walk.panic THEN {[panic |-> TRUE, inline_ranges |-> <<>>]}
        ELSE {[panic |-> FALSE, inline_ranges |-> sorted] :
                 sorted \in SortedArrangements(walk.lines, 1 .. Len(walk.lines))}

\* Context::get_procedure_inline_ranges: outcomes [c, panic, inline_ranges]
get_procedure_inline_ranges(c, module_index, proc) ==
    LET cache == get_entry_mut(c.procedure_cache, proc.offset)
        c1 == [c EXCEPT !.procedure_cache = cache]
    IN  IF IsSome(cache[proc.offset].inline_ranges)
        THEN {[c |-> c1, panic |-> FALSE,
               inline_ranges |-> Unwrap(cache[proc.offset].inline_ranges)]}
        ELSE {IF o.panic
              THEN [c |-> c1, panic |-> TRUE, inline_ranges |-> <<>>]
              ELSE [c |-> [c1 EXCEPT !.procedure_cache[proc.offset].inline_ranges =
                                         Some(o.inline_ranges)],
                    panic |-> FALSE, inline_ranges |-> o.inline_ranges] :
              o \in compute_procedure_inline_ranges(module_index, proc)}

(***************************************************************************)
(* Context::find_frames                                                    *)
(***************************************************************************)
\* Context::get_inline_name: [cache, name]
get_inline_name(cache, id_index) ==
    IF id_index \in DOMAIN cache
    THEN [cache |-> cache, name |-> cache[id_index]]
    ELSE [cache |-> [k \in DOMAIN cache \cup {id_index} |->
                        IF k = id_index THEN format_id(id_index) ELSE cache[k]],
          name |-> format_id(id_index)]

\* a variant of the comparison of the inline-range search that takes the
\* end of a range as inside it
InlineRangeCmpsEndInclusive(inline_ranges, probe, current_depth) ==
    [i \in 1 .. Len(inline_ranges) |->
        LET range == inline_ranges[i]
        IN  IF range.call_depth > current_depth THEN "Greater"
            ELSE IF range.call_depth < current_depth THEN "Less"
            ELSE IF range.start_offset > probe THEN "Greater"
            ELSE IF range.end_offset < probe THEN "Less"
            ELSE "Equal"]

InlineRangeCmps(inline_ranges, probe, current_depth) ==
    [i \in 1 .. Len(inline_ranges) |->
        LET range == inline_ranges[i]
        IN  IF range.call_depth > current_depth THEN "Greater"
            ELSE IF range.call_depth < current_depth THEN "Less"
            ELSE IF range.start_offset > probe THEN "Greater"
            ELSE IF range.end_offset <= probe THEN "Less"
            ELSE "Equal"]

\* the loop over the call depths: the ranges picked, outermost first
RECURSIVE InlineWalk(_, _, _)
InlineWalk(inline_ranges, probe, current_depth) ==
    UNION {
        IF hit.found
        THEN {<<inline_ranges[hit.index + 1]>> \o rest :
                 rest \in InlineWalk(
                     SubSeq(inline_ranges, hit.index + 2, Len(inline_ranges)),
                     probe, current_depth + 1)}
        ELSE {<<>>} :
        hit \in binary_search_by(
                    InlineRangeCmps(inline_ranges, probe, current_depth))}

\* the frames pushed by the loop for the picked ranges, and the name cache
RECURSIVE InlineFrames(_, _, _, _)
InlineFrames(module_index, picked, i, acc) ==
    IF i > Len(picked) THEN acc
    ELSE LET n == get_inline_name(acc.cache, picked[i].inlinee)
             file == IF picked[i].file_index = None THEN None
                     ELSE resolve_filename(module_index,
                                           Unwrap(picked[i].file_index))
         IN  InlineFrames(module_index, picked, i + 1,
                 [cache  |-> n.cache,
                  frames |-> Append(acc.frames,
                                [function |-> n.name,
                                 file     |-> file,
                                 line     |-> picked[i].line_start])])

Reverse(s) == [i \in 1 .. Len(s) |-> s[Len(s) + 1 - i]]

\* a variant of the last step of find_frames that keeps the frames outermost
\* first
KeepOrder(s) == s

\* frames.reverse()
OrderFrames(s) == Reverse(s)

\* a variant of the line search that gives a file and line only for a probe
\* that is the start of a line record
OuterFileLineExactOnly(module_index, lines, probe) ==
    LET cmps == [i \in 1 .. Len(lines) |->
                    IF lines[i].start_offset < probe THEN "Less"
                    ELSE IF lines[i].start_offset = probe THEN "Equal"
                    ELSE "Greater"]
    IN  {IF ~hit.found THEN <<None, None>>
         ELSE <<resolve_filename(module_index, lines[hit.index + 1].file_index),
                Some(lines[hit.index + 1].line_start)>> :
         hit \in binary_search_by(cmps)}

\* the (file, line) of the outer frame: the possible pairs
OuterFileLine(module_index, lines, probe) ==
    LET cmps == [i \in 1 .. Len(lines) |->
                    IF lines[i].start_offset < probe THEN "Less"
                    ELSE IF lines[i].start_offset = probe THEN "Equal"
                    ELSE "Greater"]
    IN  {IF ~hit.found /\ hit.index = 0 THEN <<None, None>>
         ELSE LET index == IF hit.found THEN hit.index ELSE hit.index - 1
                  line_info == lines[index + 1]
              IN  <<resolve_filename(module_index, line_info.file_index),
                    Some(line_info.line_start)>> :
         hit \in binary_search_by(cmps)}

\* find_frames after lookup_function returned a procedure
FindFramesProcedure(c, probe, module_index, proc) ==
    LET n == get_procedure_name(c, proc)
        start_rva == to_rva(proc.offset)
        info == get_module_info(n.c, module_index)
        ext == get_extended_module_info(info.c, module_index)
        pl == get_procedure_lines(ext.c, module_index, proc)
    IN  IF start_rva = None THEN {Ok(n.c, None)}
        ELSE IF info.r # "Some" THEN {Panic(info.c)}
        ELSE IF ext.r = "Err" THEN {Err(ext.c)}
        ELSE IF ext.r = "Panic" THEN {Panic(ext.c)}
        ELSE IF pl.panic THEN {Panic(pl.c)}
        ELSE UNION {
            IF ir.panic THEN {Panic(ir.c)}
            ELSE {LET inl == InlineFrames(module_index, picked, 1,
                                 [cache |-> ir.c.inline_name_cache,
                                  frames |-> <<[function |-> n.name,
                                                file     |-> fl[1],
                                                line     |-> fl[2]]>>])
                  IN  [c |-> [ir.c EXCEPT !.inline_name_cache = inl.cache],
                       result |-> [status |-> "Ok",
                                   value |-> Some(
                                       [start_rva |-> Unwrap(start_rva),
                                        end_rva   |-> Some(Unwrap(start_rva) + proc.len),
                                        frames    |-> OrderFrames(inl.frames)])],
                       picked |-> Reverse(picked)] :
                  picked \in InlineWalk(ir.inline_ranges, probe, 0),
                  fl \in OuterFileLine(module_index, pl.lines, probe)} :
            ir \in get_procedure_inline_ranges(pl.c, module_index, proc)}

\* a variant of find_frames whose public arm creates a procedure cache entry
\* at the symbol's offset
FindFramesPublicCached(c, probe) ==
    UNION {
        IF l.r = None THEN {Ok(l.c, None)}
        ELSE LET func == Unwrap(l.r)
             IN  IF func.kind = "Public"
                 THEN LET start_rva == to_rva(func.fun.start_offset)
                          cached == [l.c EXCEPT !.procedure_cache =
                                        get_entry_mut(@, func.fun.start_offset)]
                      IN  IF start_rva = None THEN {Ok(l.c, None)}
                          ELSE {Ok(cached, Some(
                                   [start_rva |-> Unwrap(start_rva),
                                    end_rva   |-> None,
                                    frames    |-> <<[function |-> Some(func.fun.name),
                                                     file     |-> None,
                                                     line     |-> None]>>]))}
                 ELSE FindFramesProcedure(l.c, probe, func.module_index, func.proc) :
        l \in lookup_function(c, probe)}

find_frames(c, probe) ==
    UNION {
        IF l.r = None THEN {Ok(l.c, None)}
        ELSE LET func == Unwrap(l.r)
             IN  IF func.kind = "Public"
                 THEN LET start_rva == to_rva(func.fun.start_offset)
                      IN  IF start_rva = None THEN {Ok(l.c, None)}
                          ELSE {Ok(l.c, Some(
                                   [start_rva |-> Unwrap(start_rva),
                                    end_rva   |-> None,
                                    frames    |-> <<[function |-> Some(func.fun.name),
                                                     file     |-> None,
                                                     line     |-> None]>>]))}
                 ELSE FindFramesProcedure(l.c, probe, func.module_index, func.proc) :
        l \in lookup_function(c, probe)}

(***************************************************************************)
(* Context::functions and FunctionIter::next                               *)
(***************************************************************************)
\* the addresses pushed for the modules from module_index on: outcomes
\* [c, rvas]
RECURSIVE ModuleStarts(_, _, _)
ModuleStarts(c, module_index, rvas) ==
    IF module_index \notin Modules THEN {[c |-> c, rvas |-> rvas]}
    ELSE UNION {
        ModuleStarts(mp.c, module_index + 1,
            IF mp.ok
            THEN rvas \cup {Unwrap(to_rva(mp.procedures[i].offset)) :
                     i \in {j \in 1 .. Len(mp.procedures) :
                               to_rva(mp.procedures[j].offset) # None}}
            ELSE rvas) :
        mp \in get_module_procedures(c, module_index)}

\* the ascending arrangement of a set of addresses: sort_unstable and dedup
RECURSIVE SortAddrs(_)
SortAddrs(S) ==
    IF S = {} THEN <<>>
    ELSE LET m == CHOOSE x \in S : \A y \in S : x <= y
         IN  <<m>> \o SortAddrs(S \ {m})

\* Context::compute_full_rva_list: outcomes [c, list]
compute_full_rva_list(c) ==
    LET publics == {Unwrap(to_rva(public_functions[i].start_offset)) :
                       i \in {j \in 1 .. Len(public_functions) :
                                 to_rva(public_functions[j].start_offset) # None}}
    IN  {[c |-> o.c, list |-> SortAddrs(o.rvas)] :
            o \in ModuleStarts(c, 0, publics)}

\* FunctionIter::next from cur_index on: outcomes [c, cur_index, item]
RECURSIVE IterNextFrom(_, _, _)
IterNextFrom(c, list, cur_index) ==
    IF cur_index >= Len(list)
    THEN {[c |-> c, cur_index |-> cur_index, item |-> None]}
    ELSE UNION {
        IF o.result.status = "Ok" /\ o.result.value # None
        THEN {[c |-> o.c, cur_index |-> cur_index + 1, item |-> o.result.value]}
        ELSE IterNextFrom(o.c, list, cur_index + 1) :
        o \in find_function(c, list[cur_index + 1])}

(***************************************************************************)
(* The calls as actions.                                                   *)
(***************************************************************************)
SetCaches(c) ==
    /\ module_contents' = c.module_contents
    /\ parse_count' = c.parse_count
    /\ module_procedures' = c.module_procedures
    /\ procedure_cache' = c.procedure_cache
    /\ extended_module_cache' = c.extended_module_cache
    /\ inline_name_cache' = c.inline_name_cache

\* a resolver exists and no call has panicked
Running == context = "ok" /\ res.result.status # "Panic"

\* the modules that own a section contribution holding the address
Owners(probe) ==
    LET offset == to_internal_offset(probe)
    IN  IF offset = None THEN {}
        ELSE {section_contributions[i].module_index :
                 i \in {j \in 1 .. Len(section_contributions) :
                     /\ section_contributions[j].section_index = Unwrap(offset)[1]
                     /\ section_contributions[j].start_offset <= Unwrap(offset)[2]
                     /\ Unwrap(offset)[2] < section_contributions[j].end_offset}}

NoCall ==
    [op |-> "none", probe |-> 0, result |-> [status |-> "Ok", value |-> None],
     picked |-> <<>>, failed |-> {}]

\* no inline tree walk has begun
NoWalk == [status |-> "none", cursor |-> 0, scopes |-> <<>>]

NoIter ==
    [active |-> FALSE, list |-> <<>>, cur_index |-> 0, out |-> <<>>,
     done |-> FALSE, failed |-> FALSE, ever_failed |-> FALSE]

\* history: while no lookup is remembered yet, the one just made may be;
\* afterwards, whether the remembered lookup has been made again
Remember ==
    \/ /\ mark.state # "set"
       /\ mark' = mark
    \/ /\ mark.state = "empty"
       /\ mark' = [state |-> "set", call |-> res', repeated |-> FALSE]
    \/ /\ mark.state = "set"
       /\ mark' = [mark EXCEPT !.repeated =
                      @ \/ (res'.op = mark.call.op /\ res'.probe = mark.call.probe)]

Returned(op, probe, o) ==
    [op |-> op, probe |-> probe, result |-> o.result, picked |-> o.picked,
     failed |-> o.c.failed]

NewFromParts ==
    /\ context = "none"
    /\ LET sc == compute_section_contributions(pdb.contributions)
       IN  IF sc.error # ""
           THEN /\ context' = sc.error
                /\ UNCHANGED <<section_contributions, public_functions>>
           ELSE /\ context' = "ok"
                /\ section_contributions' = sc.spans
                /\ public_functions' \in PublicIndexes
    /\ UNCHANGED <<symbols_iter, inputVars, source_ok, cacheVars, full_rva_list, iter, res, mark>>

FindFunction(probe) ==
    /\ Running
    /\ \E o \in find_function(Caches, probe) :
          /\ SetCaches(o.c)
          /\ res' = Returned("find_function", probe, o)
    /\ Remember
    /\ UNCHANGED <<symbols_iter, inputVars, source_ok, indexVars, full_rva_list, iter>>

FindFrames(probe) ==
    /\ Running
    /\ \E o \in find_frames(Caches, probe) :
          /\ SetCaches(o.c)
          /\ res' = Returned("find_frames", probe, o)
    /\ Remember
    /\ UNCHANGED <<symbols_iter, inputVars, source_ok, indexVars, full_rva_list, iter>>

\* Context::functions
Functions ==
    /\ Running
    /\ \E o \in IF IsSome(full_rva_list)
                THEN {[c |-> Caches, list |-> Unwrap(full_rva_list)]}
                ELSE compute_full_rva_list(Caches) :
          /\ SetCaches(o.c)
          /\ full_rva_list' = Some(o.list)
          /\ iter' = [active |-> TRUE, list |-> o.list, cur_index |-> 0,
                      out |-> <<>>, done |-> FALSE, failed |-> o.c.failed # {},
                      ever_failed |-> iter.ever_failed \/ o.c.failed # {}]
          /\ res' = [NoCall EXCEPT !.op = "functions",
                                   !.failed = o.c.failed]
    /\ UNCHANGED <<symbols_iter, inputVars, source_ok, indexVars, mark>>

\* FunctionIter::next
IterNext ==
    /\ Running
    /\ iter.active
    /\ ~iter.done
    /\ \E o \in IterNextFrom(Caches, iter.list, iter.cur_index) :
          /\ SetCaches(o.c)
          /\ iter' = [iter EXCEPT !.cur_index = o.cur_index,
                                  !.out = IF o.item = None THEN @
                                          ELSE Append(@, Unwrap(o.item)),
                                  !.done = (o.item = None),
                                  !.failed = @ \/ o.c.failed # {},
                                  !.ever_failed = @ \/ o.c.failed # {}]
          /\ res' = [NoCall EXCEPT !.op = "next",
                                   !.result.value = o.item,
                                   !.failed = o.c.failed]
    /\ UNCHANGED <<symbols_iter, inputVars, source_ok, indexVars, full_rva_list, mark>>

\* the environment: reads of the Source start or stop failing
SourceChange ==
    /\ Running
    /\ source_ok' = ~source_ok
    /\ UNCHANGED <<symbols_iter, inputVars, indexVars, cacheVars, full_rva_list, iter, res, mark>>

\* construction and the per-address lookups
Next ==
    \/ NewFromParts
    \/ \E probe \in Addrs : FindFunction(probe)
    \/ \E probe \in Addrs : FindFrames(probe)
    \/ SourceChange

\* construction and the enumeration of all functions
NextEnum ==
    \/ NewFromParts
    \/ Functions
    \/ IterNext
    \/ SourceChange

(***************************************************************************)
(* Inputs.                                                                 *)
(***************************************************************************)
Raw(module, section, offset, size) ==
    [module |-> module, section |-> section, offset |-> offset, size |-> size]

ProcedureSym(offset, len, name, type_index, end) ==
    [kind |-> "Procedure", offset |-> offset, len |-> len, name |-> name,
     type_index |-> type_index, end |-> end]

ThunkSym(offset, len, name, end) ==
    [kind |-> "Thunk", offset |-> offset, len |-> len, name |-> name, end |-> end]

InlineSiteSym(inlinee, end, lines) ==
    [kind |-> "InlineSite", inlinee |-> inlinee, end |-> end, lines |-> lines]

EndSym == [kind |-> "End"]

LineInfo(offset, length, file_index, line_start) ==
    [offset |-> offset, length |-> length, file_index |-> file_index,
     line_start |-> line_start]

EmptyModule ==
    [stream |-> "ok", symbols |-> <<>>, line_program |-> <<>>,
     inlinees |-> {}, files |-> {}]

Builds == [binary_search : {"early_exit", "halving"}]

StartState(databases, builds, marking) ==
    /\ pdb \in databases
    /\ build \in builds
    /\ mark = [state |-> marking]
    /\ source_ok = TRUE
    /\ context = "none"
    /\ section_contributions = <<>>
    /\ public_functions = <<>>
    /\ module_contents = {}
    /\ parse_count = [m \in Modules |-> 0]
    /\ module_procedures = [m \in Modules |-> None]
    /\ procedure_cache = <<>>
    /\ extended_module_cache = {}
    /\ inline_name_cache = <<>>
    /\ full_rva_list = None
    /\ iter = NoIter
    /\ res = NoCall
    /\ symbols_iter = NoWalk

RawContributions ==
    [module : Modules, section : Sections, offset : 0 .. 1, size : 0 .. 2]

RECURSIVE SeqsUpTo(_, _)
SeqsUpTo(S, n) ==
    IF n = 0 THEN {<<>>}
    ELSE LET shorter == SeqsUpTo(S, n - 1)
         IN  shorter \cup {Append(s, x) : s \in {t \in shorter : Len(t) = n - 1}, x \in S}

\* the debug data of the section contribution specification: any raw
\* contribution list, no symbols
DatabasesSC(longest) ==
    {[contributions |-> raw, publics |-> <<>>, unmapped |-> {},
      string_table |-> TRUE, modules |-> [m \in Modules |-> EmptyModule]] :
        raw \in SeqsUpTo(RawContributions, longest)}

\* the construction makes no search: one build
InitSC == StartState(DatabasesSC(MaxRaw), {[binary_search |-> "early_exit"]}, "off")

NextSC == NewFromParts

SpecSC == InitSC /\ [][NextSC]_vars

(***************************************************************************)
(* The debug data of the lookup specification: two modules, module 0       *)
(* owning section 1 (or its first two bytes) and module 1 the first two    *)
(* bytes of section 2; a choice of public symbols; a choice of symbol      *)
(* streams; and at most one defect.                                        *)
(***************************************************************************)
LookupLayouts ==
    {<<Raw(0, 1, 0, SectionSize), Raw(1, 2, 0, 2)>>,
     <<Raw(0, 1, 0, 2), Raw(1, 1, 2, SectionSize - 2), Raw(1, 2, 0, 2)>>}

PublicCandidates ==
    <<[offset |-> <<1, 0>>, name |-> "?f", function |-> TRUE],
      [offset |-> <<1, 1>>, name |-> "g", function |-> TRUE],
      [offset |-> <<1, 2>>, name |-> "?h", function |-> TRUE],
      [offset |-> <<2, 1>>, name |-> "k", function |-> TRUE],
      [offset |-> <<2, 2>>, name |-> "d", function |-> FALSE]>>

\* which public symbols the debug data holds: none; a decorated name at a
\* procedure start and one past the procedures; one inside a procedure of
\* each module; two in the procedures of module 0; one past the procedures
\* and one that is not a function
PublicChoices == {{}, {1, 3}, {2, 4}, {1, 2}, {3, 5}}

PublicLists ==
    {[i \in 1 .. Len(order) |-> PublicCandidates[order[i]]] :
        order \in {SortAddrs(S) : S \in PublicChoices}}

\* module 0: a typed procedure f at <<1,0>> of two bytes with two line
\* records; inline site 1 contributes <<1,1>> (one byte) and holds site 2,
\* which contributes both bytes of f: more than its caller
ModuleWithInlines ==
    [stream |-> "ok",
     symbols |-> <<ProcedureSym(<<1, 0>>, 2, "f", 1, 6),
                   InlineSiteSym(1, 5, <<LineInfo(<<1, 1>>, Some(1), 2, 4)>>),
                   InlineSiteSym(2, 4, <<LineInfo(<<1, 0>>, Some(2), 2, 7)>>),
                   EndSym, EndSym, EndSym>>,
     line_program |-> <<[offset |-> <<1, 0>>,
                         lines |-> <<LineInfo(<<1, 0>>, None, 1, 10),
                                     LineInfo(<<1, 1>>, None, 1, 12)>>]>>,
     inlinees |-> {1, 2},
     files |-> {1, 2}]

\* module 0: an untyped procedure g at <<1,0>> of one byte, a zero-length
\* procedure and a thunk t at <<1,1>> of one byte, no line records
ModuleUntyped ==
    [stream |-> "ok",
     symbols |-> <<ProcedureSym(<<1, 0>>, 1, "g0", 0, 2), EndSym,
                   ProcedureSym(<<1, 2>>, 0, "z", 1, 4), EndSym,
                   ThunkSym(<<1, 1>>, 1, "?t", 6), EndSym>>,
     line_program |-> <<>>,
     inlinees |-> {},
     files |-> {}]

\* module 1: a procedure p at <<2,0>> of two bytes whose type cannot be
\* rendered, with one line record; inline site 1 contributes its first byte
ModuleSectionTwo ==
    [stream |-> "ok",
     symbols |-> <<ProcedureSym(<<2, 0>>, 2, "p", 2, 4),
                   InlineSiteSym(1, 3, <<LineInfo(<<2, 0>>, Some(1), 1, 21)>>),
                   EndSym, EndSym>>,
     line_program |-> <<[offset |-> <<2, 0>>,
                         lines |-> <<LineInfo(<<2, 0>>, None, 1, 20)>>]>>,
     inlinees |-> {1},
     files |-> {1}]

Defects ==
    {"none", "unmapped_1_1", "unmapped_1_0", "no_string_table", "badsyms_0",
     "badlines_0", "absent_1", "unknown_inlinee", "no_file_info"}

WithDefect(db, defect) ==
    CASE defect = "unmapped_1_1" -> [db EXCEPT !.unmapped = {<<1, 1>>}]
      [] defect = "unmapped_1_0" -> [db EXCEPT !.unmapped = {<<1, 0>>}]
      [] defect = "no_string_table" -> [db EXCEPT !.string_table = FALSE]
      [] defect = "badsyms_0" -> [db EXCEPT !.modules[0].stream = "badsyms"]
      [] defect = "badlines_0" -> [db EXCEPT !.modules[0].stream = "badlines"]
      [] defect = "absent_1" -> [db EXCEPT !.modules[1].stream = "absent"]
      [] defect = "unknown_inlinee" -> [db EXCEPT !.modules[0].inlinees = {2}]
      [] defect = "no_file_info" -> [db EXCEPT !.modules[0].files = {}]
      [] OTHER -> db

Database(raw, publics, m0, m1) ==
    [contributions |-> raw, publics |-> publics, unmapped |-> {},
     string_table |-> TRUE,
     modules |-> [m \in Modules |-> IF m = 0 THEN m0 ELSE m1]]

\* sound debug data, and the defects one at a time
DatabasesLookup ==
    {Database(raw, publics, m0, ModuleSectionTwo) :
        raw \in LookupLayouts,
        publics \in PublicLists,
        m0 \in {ModuleWithInlines, ModuleUntyped}}
    \cup
    {WithDefect(Database(raw, <<PublicCandidates[3], PublicCandidates[4]>>,
                         ModuleWithInlines, ModuleSectionTwo), defect) :
        raw \in {<<Raw(0, 1, 0, SectionSize), Raw(1, 2, 0, 2)>>},
        defect \in Defects \ {"none"}}

Init == StartState(DatabasesLookup, Builds, "off")

Spec == Init /\ [][Next]_vars

\* the lookups with one earlier lookup remembered
DatabasesRepeat ==
    {WithDefect(Database(raw, <<PublicCandidates[3], PublicCandidates[4]>>,
                         ModuleWithInlines, ModuleSectionTwo), defect) :
        raw \in {<<Raw(0, 1, 0, SectionSize), Raw(1, 2, 0, 2)>>},
        defect \in {"none", "badsyms_0", "absent_1"}}

\* the searches of these debug data have at most one Equal element, where
\* the two loops agree: one build
InitRepeat == StartState(DatabasesRepeat, {[binary_search |-> "halving"]}, "empty")

SpecRepeat == InitRepeat /\ [][Next]_vars

\* the enumeration of all functions
DatabasesEnum ==
    {Database(raw, publics, m0, ModuleSectionTwo) :
        raw \in LookupLayouts,
        publics \in PublicLists,
        m0 \in {ModuleWithInlines, ModuleUntyped}}

InitEnum == StartState(DatabasesEnum, Builds, "off")

SpecEnum == InitEnum /\ [][NextEnum]_vars

(***************************************************************************)
(* Properties of the construction (specification SpecSC).                  *)
(***************************************************************************)
\* the merged spans before sorting; none when the merge stops with the
\* ordering error
CombinedSpans == CombineContributions(pdb.contributions, 1).spans

SpansIntersect(a, b) ==
    /\ a.section_index = b.section_index
    /\ a.start_offset < b.end_offset
    /\ b.start_offset < a.end_offset

SomeSpansIntersect(differentModulesOnly) ==
    \E i, j \in 1 .. Len(CombinedSpans) :
        /\ i # j
        /\ SpansIntersect(CombinedSpans[i], CombinedSpans[j])
        /\ differentModulesOnly =>
               CombinedSpans[i].module_index # CombinedSpans[j].module_index

\* C10 as stated: construction fails with the overlapping-contribution error
\* exactly when two merged spans of different modules intersect in one
\* section; spans of one module never raise it.
C10_OverlapIffDifferentModules ==
    context # "none" =>
        ((context = "OverlappingSectionContributions") <=> SomeSpansIntersect(TRUE))

\* C10 amended: construction fails with the overlapping-contribution error
\* exactly when two merged spans of one section intersect, whichever modules
\* they belong to: two spans of the same module (two separate runs of it)
\* raise the error as well.
C10_OverlapIffAnySpansIntersect ==
    context # "none" =>
        ((context = "OverlappingSectionContributions") <=> SomeSpansIntersect(FALSE))

\* C10 witness: the overlap error raised by two spans of one module while no
\* spans of different modules intersect.
C10_SameModuleOverlapReached ==
    /\ context = "OverlappingSectionContributions"
    /\ ~SomeSpansIntersect(TRUE)


(***************************************************************************)
(* Properties of the lookups (specification Spec).                         *)
(***************************************************************************)
IsLookup(call) == call.op \in {"find_function", "find_frames"}

\* the last call returned a match
Matched(call) ==
    /\ IsLookup(call)
    /\ call.result.status = "Ok"
    /\ IsSome(call.result.value)

\* what find_function can return for the probe in the current state
FindFunctionResults(probe) == {o.result : o \in find_function(Caches, probe)}

\* C1: when find_frames(A) returns a match, its frame list is non-empty, its
\* last frame is the outer function, and the last frame's name and the
\* result's start and end are the name, start and end find_function(A)
\* returns.
C1_LastFrameIsFindFunction ==
    (res.op = "find_frames" /\ Matched(res)) =>
        LET ff == Unwrap(res.result.value)
        IN  /\ Len(ff.frames) >= 1
            /\ \A r \in FindFunctionResults(res.probe) :
                  /\ r.status = "Ok"
                  /\ IsSome(r.value)
                  /\ Unwrap(r.value).name = ff.frames[Len(ff.frames)].function
                  /\ Unwrap(r.value).start_rva = ff.start_rva
                  /\ Unwrap(r.value).end_rva = ff.end_rva

\* find_frames returned inline frames before the outer frame of a named
\* procedure
C1_InlineFramesBeforeOuter ==
    /\ res.op = "find_frames"
    /\ Matched(res)
    /\ Len(Unwrap(res.result.value).frames) >= 3
    /\ IsSome(Unwrap(res.result.value).frames[3].function)

\* C2: every match with a known end satisfies start <= A < end.
C2_ProbeWithinBounds ==
    (Matched(res) /\ IsSome(Unwrap(res.result.value).end_rva)) =>
        /\ Unwrap(res.result.value).start_rva <= res.probe
        /\ res.probe < Unwrap(Unwrap(res.result.value).end_rva)

\* a lookup of the last byte of a procedure of more than one byte matched
C2_LastByteMatched ==
    /\ Matched(res)
    /\ IsSome(Unwrap(res.result.value).end_rva)
    /\ Unwrap(res.result.value).start_rva < res.probe
    /\ res.probe + 1 = Unwrap(Unwrap(res.result.value).end_rva)

\* the address ranges of the frames of a match, innermost first: the range
\* each inline frame was made from, then the outer procedure's
FrameRanges(call) ==
    [i \in 1 .. Len(call.picked) |->
        <<call.picked[i].start_offset, call.picked[i].end_offset>>]
    \o <<<<Unwrap(call.result.value).start_rva,
           Unwrap(Unwrap(call.result.value).end_rva)>>>>

HasInlineFrames(call) ==
    /\ call.op = "find_frames"
    /\ Matched(call)
    /\ Len(call.picked) >= 1

\* C3 as stated: the frames are innermost first and correspond to nested
\* address ranges, each range lying inside the range of every later frame.
C3_RangesNested ==
    HasInlineFrames(res) =>
        LET ranges == FrameRanges(res)
        IN  \A i, j \in 1 .. Len(ranges) :
               i < j => /\ ranges[j][1] <= ranges[i][1]
                        /\ ranges[i][2] <= ranges[j][2]

\* C3, amended: the frames are innermost first: there is one frame per call
\* depth, frame i of n inline frames is made from a range of call depth
\* n - i and carries that range's line, every range contains A, and the
\* last frame is the outer procedure, whose range contains A; the ranges
\* need not be nested.
C3_InnermostFirstRangesContainProbe ==
    HasInlineFrames(res) =>
        LET ff == Unwrap(res.result.value)
            n == Len(res.picked)
            ranges == FrameRanges(res)
        IN  /\ Len(ff.frames) = n + 1
            /\ \A i \in 1 .. n :
                  /\ res.picked[i].call_depth = n - i
                  /\ ff.frames[i].line = res.picked[i].line_start
                  /\ ff.frames[i].function = format_id(res.picked[i].inlinee)
            /\ \A i \in 1 .. n + 1 :
                  ranges[i][1] <= res.probe /\ res.probe < ranges[i][2]

\* two inline frames whose ranges are not nested: the inner one's range
\* starts before the outer one's
C3_InnerRangeWiderThanOuter ==
    /\ HasInlineFrames(res)
    /\ Len(res.picked) >= 2
    /\ res.picked[1].start_offset < res.picked[2].start_offset


\* C6 as stated: a lookup during which the fetch of a module's symbol stream
\* or the building of its procedure index fails returns the error.
C6_FailedFetchReturnsError ==
    (IsLookup(res) /\ res.failed # {}) => res.result.status = "Err"

\* C8 as stated: with debug data whose streams read without structural
\* failure, a lookup ends in a match or in not-found, never in an error or
\* an abort.
C8_MissingDataNeverFails ==
    (/\ IsLookup(res)
     /\ res.failed = {}
     /\ \A m \in Modules : pdb.modules[m].stream \in {"ok", "absent"})
    => res.result.status = "Ok"

\* C9: constructing the resolver parses no module, and a lookup parses only
\* modules that own a section contribution containing the address looked
\* up; so the parsed modules are always among the owners of the addresses
\* looked up so far.
C9_ParsedOnlyOwners ==
    [][/\ context = "none" =>
            /\ module_contents' = {}
            /\ \A m \in Modules : parse_count'[m] = 0
       /\ context = "ok" =>
            \A m \in Modules :
                (m \in module_contents' \ module_contents
                 \/ parse_count'[m] # parse_count[m])
                => IsLookup(res') /\ m \in Owners(res'.probe)]_vars

\* a lookup has parsed the module owning its address and the other module
\* is still unparsed
C9_OnlyOwnerParsed ==
    /\ IsLookup(res)
    /\ Owners(res.probe) = {0}
    /\ module_contents = {0}
    /\ parse_count[0] = 1
    /\ parse_count[1] = 0

(***************************************************************************)
(* Properties of repeated lookups (specification SpecRepeat).              *)
(***************************************************************************)
\* the last call repeats the remembered one
RepeatsMark ==
    /\ mark.state = "set"
    /\ mark.repeated
    /\ res.op = mark.call.op
    /\ res.probe = mark.call.probe

PublicStartRvas ==
    {Unwrap(to_rva(pdb.publics[i].offset)) :
        i \in {j \in 1 .. Len(pdb.publics) :
                  /\ pdb.publics[j].function
                  /\ IsSome(to_rva(pdb.publics[j].offset))}}

\* the addresses that start a procedure or thunk of non-zero length
ProcedureStartRvas ==
    UNION {{Unwrap(to_rva(pdb.modules[m].symbols[i].offset)) :
               i \in {j \in 1 .. Len(pdb.modules[m].symbols) :
                         /\ pdb.modules[m].symbols[j].kind \in {"Procedure", "Thunk"}
                         /\ pdb.modules[m].symbols[j].len # 0
                         /\ IsSome(to_rva(pdb.modules[m].symbols[j].offset))}} :
           m \in {n \in Modules : pdb.modules[n].stream = "ok"}}

\* how many of the Functions yielded start at the address
Yielded(rva) == Cardinality({i \in 1 .. Len(iter.out) : iter.out[i].start_rva = rva})

\* C4 as stated: an enumeration run to its end, no module fetch having
\* failed, has yielded exactly one Function for every address that starts a
\* public function symbol or a procedure or thunk of non-zero length, in
\* ascending order of start.
C4_EveryStartExactlyOnce ==
    (iter.done /\ ~iter.ever_failed) =>
        /\ \A rva \in PublicStartRvas \cup ProcedureStartRvas : Yielded(rva) = 1
        /\ \A i, j \in 1 .. Len(iter.out) :
              i < j => iter.out[i].start_rva <= iter.out[j].start_rva

\* C7 as stated, for functions(): an enumeration run to its end during which
\* no module fetch failed, every module's procedure index being fetched by
\* then, has yielded the procedure starts of every module, also of a module
\* whose fetch failed during an earlier enumeration.
C7_LaterEnumerationHasProcedures ==
    (/\ iter.done
     /\ ~iter.failed
     /\ \A m \in Modules : IsSome(module_procedures[m]))
    => \A rva \in ProcedureStartRvas : Yielded(rva) >= 1

(***************************************************************************)
(* More properties of the construction (specification SpecSC).             *)
(***************************************************************************)
\* the positions of the raw records of nonzero size, in input order
NonzeroRecords ==
    LET raw == pdb.contributions
        F[i \in 0 .. Len(raw)] ==
            IF i = 0 THEN <<>>
            ELSE IF raw[i].size = 0 THEN F[i - 1] ELSE Append(F[i - 1], i)
    IN  F[Len(raw)]

\* records i < j of one module and section, the later one ending below the
\* earlier one
EndDecreases(i, j) ==
    LET raw == pdb.contributions
    IN  /\ i < j
        /\ raw[i].size # 0
        /\ raw[j].size # 0
        /\ raw[i].module = raw[j].module
        /\ raw[i].section = raw[j].section
        /\ raw[j].offset + raw[j].size < raw[i].offset + raw[i].size

\* C11 as stated: construction fails with the unordered-contribution error
\* whenever the raw input holds two nonzero-size records of one module and
\* section of which the later one ends below the earlier one.
C11_AnyDecreasingPairFails ==
    (/\ context # "none"
     /\ \E i, j \in 1 .. Len(pdb.contributions) : EndDecreases(i, j))
    => context = "UnorderedSectionContributions"

\* C11, amended: construction fails with the unordered-contribution error
\* exactly when two nonzero-size records that follow one another, only
\* zero-size records between them, are of one module and section and the
\* later one ends below the earlier one.
C11_NeighbouringDecreasingPairFails ==
    context # "none" =>
        ((context = "UnorderedSectionContributions")
         <=> \E k \in 1 .. (Len(NonzeroRecords) - 1) :
                EndDecreases(NonzeroRecords[k], NonzeroRecords[k + 1]))

\* the unordered-contribution error raised by the first and the third
\* record, the record between them being of size zero
C11_ErrorAcrossZeroSizeRecord ==
    /\ context = "UnorderedSectionContributions"
    /\ Len(pdb.contributions) = 3
    /\ pdb.contributions[2].size = 0
    /\ EndDecreases(1, 3)

\* the results of the two search loops on one slice of comparisons
EitherSearch(cmps) ==
    IF Len(cmps) = 0 THEN {[found |-> FALSE, index |-> 0]}
    ELSE {BinarySearchEarlyExit(cmps, 0, Len(cmps)),
          BinarySearchHalving(cmps, 0, Len(cmps))}

\* the positions of the spans that contain <<section, offset>>
Holders(offset) ==
    {i \in 1 .. Len(section_contributions) :
        /\ section_contributions[i].section_index = offset[1]
        /\ section_contributions[i].start_offset <= offset[2]
        /\ offset[2] < section_contributions[i].end_offset}

\* C13: after a successful construction the spans are sorted by (section,
\* start), each has start < end, no two of one section intersect, every
\* (section, offset) lies in at most one span, and the search of
\* lookup_function, in either loop, finds that span exactly when there is one.
C13_SpansSortedDisjointSearchable ==
    context = "ok" =>
        /\ \A i, j \in 1 .. Len(section_contributions) :
              i < j => PairLess(<<section_contributions[i].section_index,
                                  section_contributions[i].start_offset>>,
                                <<section_contributions[j].section_index,
                                  section_contributions[j].start_offset>>)
        /\ \A i \in 1 .. Len(section_contributions) :
              section_contributions[i].start_offset
                  < section_contributions[i].end_offset
        /\ \A i, j \in 1 .. Len(section_contributions) :
              i # j => ~SpansIntersect(section_contributions[i],
                                       section_contributions[j])
        /\ \A s \in Sections, o \in 0 .. (SectionSize + 1) :
              /\ Cardinality(Holders(<<s, o>>)) <= 1
              /\ \A hit \in EitherSearch(SectionContributionCmps(<<s, o>>)) :
                    /\ hit.found <=> Holders(<<s, o>>) # {}
                    /\ hit.found => (hit.index + 1) \in Holders(<<s, o>>)

\* three spans kept, reordered by the sort, two of them in one section, and
\* an offset of that section that no span contains
C13_ReorderedSpansWithHole ==
    /\ context = "ok"
    /\ Len(section_contributions) = 3
    /\ section_contributions # CombinedSpans
    /\ \E i \in 1 .. 2 :
          /\ section_contributions[i].section_index
                 = section_contributions[i + 1].section_index
          /\ \E o \in Offsets :
                 Holders(<<section_contributions[i].section_index, o>>) = {}

(***************************************************************************)
(* More properties of the lookups (specification Spec).                    *)
(***************************************************************************)
\* the entries of a procedure index that cover the <<section, offset>> target
Covering(procedures, offset) ==
    {i \in 1 .. Len(procedures) :
        /\ procedures[i].offset[1] = offset[1]
        /\ procedures[i].offset[2] <= offset[2]
        /\ offset[2] < procedures[i].offset[2] + procedures[i].len}

\* the public entries of the target's section at or below the target
PublicsAtOrBelow(offset) ==
    {i \in 1 .. Len(public_functions) :
        /\ public_functions[i].start_offset[1] = offset[1]
        /\ public_functions[i].start_offset[2] <= offset[2]}

\* the one among them with the greatest offset
NearestPublic(offset) ==
    CHOOSE i \in PublicsAtOrBelow(offset) :
        \A j \in PublicsAtOrBelow(offset) :
            public_functions[j].start_offset[2] <= public_functions[i].start_offset[2]

\* the call that just returned went through the index of module m, which
\* has no entry covering the probe
IndexMiss(call, procedures, m) ==
    /\ IsLookup(call)
    /\ call.result.status = "Ok"
    /\ Owners(call.probe) = {m}
    /\ IsSome(procedures[m])
    /\ Covering(Unwrap(procedures[m]),
                Unwrap(to_internal_offset(call.probe))) = {}

\* C12: a lookup that resolves through the public fallback returns the
\* symbol's start and name with no end; find_frames gives exactly one frame
\* with that name and neither file nor line; the per-procedure cache, the
\* line tables and the inlinee names are left as they were.
C12_PublicMatchHasNameOnly ==
    [][\A m \in Modules :
          (/\ IndexMiss(res', module_procedures', m)
           /\ PublicsAtOrBelow(Unwrap(to_internal_offset(res'.probe))) # {}) =>
             LET fun == public_functions[
                            NearestPublic(Unwrap(to_internal_offset(res'.probe)))]
                 start_rva == to_rva(fun.start_offset)
             IN  /\ res'.result.value =
                       IF start_rva = None THEN None
                       ELSE IF res'.op = "find_function"
                       THEN Some([start_rva |-> Unwrap(start_rva),
                                  end_rva   |-> None,
                                  name      |-> Some(fun.name)])
                       ELSE Some([start_rva |-> Unwrap(start_rva),
                                  end_rva   |-> None,
                                  frames    |-> <<[function |-> Some(fun.name),
                                                   file     |-> None,
                                                   line     |-> None]>>])
                 /\ procedure_cache' = procedure_cache
                 /\ extended_module_cache' = extended_module_cache
                 /\ inline_name_cache' = inline_name_cache]_vars

\* find_frames resolved through the public fallback in a module that has
\* procedures of its own
C12_PublicFramesReached ==
    /\ res.op = "find_frames"
    /\ Matched(res)
    /\ Unwrap(res.result.value).end_rva = None
    /\ \E m \in Modules :
          /\ IndexMiss(res, module_procedures, m)
          /\ Unwrap(module_procedures[m]) # <<>>

(***************************************************************************)
(* Lookups in a module whose procedures may share bytes (specification     *)
(* SpecProcedures).  Module 0 owns section 1 and holds one or two typed    *)
(* procedures, each at any offset of the section and of any length up to   *)
(* the section's; one public symbol lies at the start of the section.      *)
(***************************************************************************)
ProcedureShapes == [offset : Offsets, len : 1 .. SectionSize]

ModuleOfProcedures(shapes) ==
    [stream |-> "ok",
     symbols |-> [i \in 1 .. (2 * Len(shapes)) |->
                     IF i % 2 = 0 THEN EndSym
                     ELSE ProcedureSym(<<1, shapes[(i + 1) \div 2].offset>>,
                                       shapes[(i + 1) \div 2].len,
                                       IF i = 1 THEN "a" ELSE "b", 1, i + 1)],
     line_program |-> <<>>,
     inlinees |-> {},
     files |-> {}]

DatabasesProcedures ==
    {Database(<<Raw(0, 1, 0, SectionSize)>>, <<PublicCandidates[1]>>,
              ModuleOfProcedures(shapes), EmptyModule) :
        shapes \in {<<p>> : p \in ProcedureShapes}
                   \cup {<<p, q>> : p \in ProcedureShapes, q \in ProcedureShapes}}

InitProcedures == StartState(DatabasesProcedures, Builds, "off")

SpecProcedures == InitProcedures /\ [][Next]_vars

\* C14: when the probe lies in a contribution of module M and some entry of
\* M's procedure index covers it, also when entries overlap one another, the
\* lookup returns a procedure match; the public fallback is taken only when
\* no entry covers the probe.
C14_CoveredProbeMatchesProcedure ==
    \A m \in Modules :
        (/\ IsLookup(res)
         /\ res.result.status = "Ok"
         /\ Owners(res.probe) = {m}
         /\ IsSome(module_procedures[m])
         /\ Covering(Unwrap(module_procedures[m]),
                     Unwrap(to_internal_offset(res.probe))) # {}) =>
            /\ IsSome(res.result.value)
            /\ IsSome(Unwrap(res.result.value).end_rva)
            /\ Unwrap(res.result.value).start_rva <= res.probe
            /\ res.probe < Unwrap(Unwrap(res.result.value).end_rva)

\* the same for an index whose entries are pairwise disjoint
C14_CoveredProbeMatchesDisjointProcedure ==
    \A m \in Modules :
        (/\ IsLookup(res)
         /\ res.result.status = "Ok"
         /\ Owners(res.probe) = {m}
         /\ IsSome(module_procedures[m])
         /\ Cardinality(Covering(Unwrap(module_procedures[m]),
                                 Unwrap(to_internal_offset(res.probe)))) >= 1
         /\ \A o \in Offsets :
               Cardinality(Covering(Unwrap(module_procedures[m]), <<1, o>>)) <= 1) =>
            /\ IsSome(res.result.value)
            /\ IsSome(Unwrap(res.result.value).end_rva)

\* the name a lookup returned: of the function, or of the only frame
ReturnedName(call) ==
    IF call.op = "find_function" THEN Unwrap(call.result.value).name
    ELSE Unwrap(call.result.value).frames[1].function

\* C15: on a procedure-index miss the lookup returns the public entry of the
\* target's section with the greatest offset at or below the target, and
\* not-found when there is none (nothing at or below the target, or the
\* nearest entry below lies in another section).
C15_FallbackIsNearestPublicBelow ==
    \A m \in Modules :
        IndexMiss(res, module_procedures, m) =>
            LET offset == Unwrap(to_internal_offset(res.probe))
            IN  IF PublicsAtOrBelow(offset) = {}
                THEN res.result.value = None
                ELSE LET fun == public_functions[NearestPublic(offset)]
                     IN  IF to_rva(fun.start_offset) = None
                         THEN res.result.value = None
                         ELSE /\ IsSome(res.result.value)
                              /\ Unwrap(res.result.value).start_rva
                                     = Unwrap(to_rva(fun.start_offset))
                              /\ Unwrap(res.result.value).end_rva = None
                              /\ ReturnedName(res) = Some(fun.name)

\* a fallback that chose among two public entries below the target, the
\* nearer one starting before the target
C15_NearerOfTwoPublicsReached ==
    /\ Matched(res)
    /\ \E m \in Modules : IndexMiss(res, module_procedures, m)
    /\ LET offset == Unwrap(to_internal_offset(res.probe))
       IN  /\ Cardinality(PublicsAtOrBelow(offset)) >= 2
           /\ public_functions[NearestPublic(offset)].start_offset[2] < offset[2]

\* a miss whose nearest public entry below lies in another section
C15_OtherSectionBelowReached ==
    /\ \E m \in Modules : IndexMiss(res, module_procedures, m)
    /\ res.result.value = None
    /\ LET offset == Unwrap(to_internal_offset(res.probe))
       IN  \E i \in 1 .. Len(public_functions) :
              public_functions[i].start_offset[1] < offset[1]

(***************************************************************************)
(* Frames of a procedure with inline sites (specification SpecInlines).    *)
(* Module 0 owns section 1 and holds one typed procedure f over the whole  *)
(* section, with one line record.  f has inline sites 1 and 2, site 2      *)
(* either inside site 1 or after it, or the chain of sites 1, 2 and 3, the *)
(* innermost contributing the whole procedure.  A site contributes         *)
(* nothing, one range, or the first and the last byte of the procedure.    *)
(***************************************************************************)
SiteLines(file_index) ==
    {<<>>}
    \cup UNION {{<<LineInfo(<<1, o>>, Some(l), file_index, (10 * file_index) + o)>> :
                     l \in 1 .. (SectionSize - o)} : o \in Offsets}
    \cup {<<LineInfo(<<1, 0>>, Some(1), file_index, 10 * file_index),
            LineInfo(<<1, SectionSize - 1>>, Some(1), file_index,
                     (10 * file_index) + 1)>>}

InlineShapes == {"nested", "siblings", "chain"}

SymbolsOfShape(shape, a, b) ==
    CASE shape = "nested" ->
            <<ProcedureSym(<<1, 0>>, SectionSize, "f", 1, 6),
              InlineSiteSym(1, 5, a), InlineSiteSym(2, 4, b),
              EndSym, EndSym, EndSym>>
      [] shape = "siblings" ->
            <<ProcedureSym(<<1, 0>>, SectionSize, "f", 1, 6),
              InlineSiteSym(1, 3, a), EndSym, InlineSiteSym(2, 5, b),
              EndSym, EndSym>>
      [] OTHER ->
            <<ProcedureSym(<<1, 0>>, SectionSize, "f", 1, 8),
              InlineSiteSym(1, 7, a), InlineSiteSym(2, 6, b),
              InlineSiteSym(3, 5, <<LineInfo(<<1, 0>>, Some(SectionSize), 1, 30)>>),
              EndSym, EndSym, EndSym, EndSym>>

ModuleOfInlines(shape, a, b) ==
    [stream |-> "ok",
     symbols |-> SymbolsOfShape(shape, a, b),
     line_program |-> <<[offset |-> <<1, 0>>,
                         lines |-> <<LineInfo(<<1, 0>>, None, 1, 5)>>]>>,
     inlinees |-> {1, 2, 3},
     files |-> {1, 2}]

DatabasesInlines ==
    {Database(<<Raw(0, 1, 0, SectionSize)>>, <<>>,
              ModuleOfInlines(shape, a, b), EmptyModule) :
        shape \in InlineShapes, a \in SiteLines(1), b \in SiteLines(2)}

InitInlines == StartState(DatabasesInlines, Builds, "off")

\* construction and find_frames, the Source never failing
NextInlines ==
    \/ NewFromParts
    \/ \E probe \in Addrs : FindFrames(probe)

SpecInlines == InitInlines /\ [][NextInlines]_vars

(***************************************************************************)
(* Properties of the inline ranges and frames (specification SpecInlines). *)
(* The sites of one procedure have different inlinees, so the inlinee of a *)
(* range tells the site it belongs to.                                     *)
(***************************************************************************)
\* the procedure symbols p of module m whose inline ranges are cached
CachedProcedures(m) ==
    {p \in 1 .. Len(pdb.modules[m].symbols) :
        /\ pdb.modules[m].symbols[p].kind = "Procedure"
        /\ pdb.modules[m].symbols[p].offset \in DOMAIN procedure_cache
        /\ IsSome(procedure_cache[pdb.modules[m].symbols[p].offset].inline_ranges)}

CachedInlineRanges(m, p) ==
    Unwrap(procedure_cache[pdb.modules[m].symbols[p].offset].inline_ranges)

\* the inline sites between the procedure symbol p and its end
SiteIndexes(m, p) ==
    {j \in (p + 1) .. (pdb.modules[m].symbols[p].end - 1) :
        pdb.modules[m].symbols[j].kind = "InlineSite"}

\* the sites that enclose site j; their number is the call depth of j
Enclosing(m, p, j) ==
    {i \in SiteIndexes(m, p) : i < j /\ j < pdb.modules[m].symbols[i].end}

ChildSites(m, p, i) ==
    {j \in SiteIndexes(m, p) :
        /\ i \in Enclosing(m, p, j)
        /\ Cardinality(Enclosing(m, p, j)) = Cardinality(Enclosing(m, p, i)) + 1}

RangeAddrs(r) == r.start_offset .. (r.end_offset - 1)

\* the addresses covered by the ranges of the list that belong to site j
SiteAddrs(m, ranges, j) ==
    UNION {RangeAddrs(ranges[k]) :
              k \in {n \in 1 .. Len(ranges) :
                        ranges[n].inlinee = pdb.modules[m].symbols[j].inlinee}}

\* the line contributions of site j that have a length, as the debug data
\* give them
OwnLines(m, j) ==
    LET site == pdb.modules[m].symbols[j]
    IN  IF site.inlinee \notin pdb.modules[m].inlinees THEN {}
        ELSE {site.lines[n] : n \in {k \in 1 .. Len(site.lines) :
                 /\ IsSome(site.lines[k].length)
                 /\ Unwrap(site.lines[k].length) # 0}}

OwnAddrs(m, j) ==
    UNION {Unwrap(to_rva(li.offset))
               .. (Unwrap(to_rva(li.offset)) + Unwrap(li.length) - 1) :
           li \in OwnLines(m, j)}

\* the ranges of site j in the list that stem from no line contribution
SynthesizedRanges(m, ranges, j) ==
    {ranges[k] : k \in {n \in 1 .. Len(ranges) :
        /\ ranges[n].inlinee = pdb.modules[m].symbols[j].inlinee
        /\ ranges[n].line_start = None}}

\* C16: in the list built for a procedure, the addresses of every site
\* include those of its nested sites; the synthesized ranges of a site, at
\* the site's depth, cover exactly the addresses of its nested sites that its
\* own contributions do not cover; every line contribution is in the list;
\* and every address of a depth d+1 range lies in some depth d range.
C16_ParentCoversChildren ==
    \A m \in Modules : \A p \in CachedProcedures(m) :
        LET ranges == CachedInlineRanges(m, p)
        IN  /\ \A j \in SiteIndexes(m, p) :
                  LET children == UNION {SiteAddrs(m, ranges, c) :
                                            c \in ChildSites(m, p, j)}
                      depth == Cardinality(Enclosing(m, p, j))
                  IN  /\ children \subseteq SiteAddrs(m, ranges, j)
                      /\ UNION {RangeAddrs(r) :
                                   r \in SynthesizedRanges(m, ranges, j)}
                             = children \ OwnAddrs(m, j)
                      /\ \A r \in SynthesizedRanges(m, ranges, j) :
                            r.call_depth = depth
                      /\ \A li \in OwnLines(m, j) :
                            \E k \in 1 .. Len(ranges) :
                               ranges[k] =
                                  [start_offset |-> Unwrap(to_rva(li.offset)),
                                   end_offset   |-> Unwrap(to_rva(li.offset))
                                                        + Unwrap(li.length),
                                   call_depth   |-> depth,
                                   inlinee      |-> pdb.modules[m].symbols[j].inlinee,
                                   file_index   |-> Some(li.file_index),
                                   line_start   |-> Some(li.line_start)]
            /\ \A k \in 1 .. Len(ranges) :
                  ranges[k].call_depth > 0 =>
                     \A a \in RangeAddrs(ranges[k]) :
                        \E n \in 1 .. Len(ranges) :
                           /\ ranges[n].call_depth = ranges[k].call_depth - 1
                           /\ a \in RangeAddrs(ranges[n])

\* a list in which an address is covered by synthesized ranges of two
\* depths: the patch of a site made its caller need one too
C16_PatchedTwiceReached ==
    \E m \in Modules : \E p \in CachedProcedures(m) :
        \E i, j \in SiteIndexes(m, p) :
            /\ j \in ChildSites(m, p, i)
            /\ OwnLines(m, i) # {}
            /\ \E r \in SynthesizedRanges(m, CachedInlineRanges(m, p), i),
                  s \in SynthesizedRanges(m, CachedInlineRanges(m, p), j) :
                  RangeAddrs(r) \cap RangeAddrs(s) # {}

\* find_frames returned the frames of a procedure
ProcedureFrames(call) ==
    /\ call.op = "find_frames"
    /\ Matched(call)
    /\ IsSome(Unwrap(call.result.value).end_rva)

\* the positions of the frames that stem from a synthesized range
SynthesizedFrames(call) ==
    {i \in 1 .. Len(call.picked) : call.picked[i].line_start = None}

\* the file of the first line contribution with a length of the site with
\* the given inlinee, if the site has one
FirstOwnFile(m, inlinee) ==
    LET sites == {j \in 1 .. Len(pdb.modules[m].symbols) :
                     /\ pdb.modules[m].symbols[j].kind = "InlineSite"
                     /\ pdb.modules[m].symbols[j].inlinee = inlinee}
        j == CHOOSE s \in sites : TRUE
        site == pdb.modules[m].symbols[j]
        withLength == {k \in 1 .. Len(site.lines) :
                          site.lines[k] \in OwnLines(m, j)}
    IN  IF withLength = {} THEN None
        ELSE resolve_filename(m,
                 site.lines[CHOOSE k \in withLength :
                                \A n \in withLength : k <= n].file_index)

\* C17 as stated: a frame that stems from a synthesized range has neither
\* file nor line, whatever line contributions its site has.
C17_SynthesizedFrameHasNoFileNoLine ==
    ProcedureFrames(res) =>
        \A i \in SynthesizedFrames(res) :
            /\ Unwrap(res.result.value).frames[i].file = None
            /\ Unwrap(res.result.value).frames[i].line = None

\* C17, amended: a frame that stems from a synthesized range has no line;
\* its file is the file of the first line contribution of its site, and is
\* absent only when the site has no contribution.
C17_SynthesizedFrameHasFirstOwnFile ==
    ProcedureFrames(res) =>
        \A i \in SynthesizedFrames(res) : \A m \in Owners(res.probe) :
            /\ Unwrap(res.result.value).frames[i].line = None
            /\ Unwrap(res.result.value).frames[i].file
                   = FirstOwnFile(m, res.picked[i].inlinee)

\* a frame from a synthesized range that names a file
C17_SynthesizedFrameWithFileReached ==
    /\ ProcedureFrames(res)
    /\ \E i \in SynthesizedFrames(res) :
          /\ IsSome(Unwrap(res.result.value).frames[i].file)
          /\ Unwrap(res.result.value).frames[i].line = None

\* the number of depths, from 0 on, at which some range of the list holds
\* the address
RECURSIVE DepthsCovering(_, _, _)
DepthsCovering(ranges, probe, depth) ==
    IF \E k \in 1 .. Len(ranges) :
           /\ ranges[k].call_depth = depth
           /\ probe \in RangeAddrs(ranges[k])
    THEN DepthsCovering(ranges, probe, depth + 1)
    ELSE depth

\* the cached list of the procedure that the call matched
MatchedInlineRanges(call) ==
    LET start == Unwrap(call.result.value).start_rva
        at == {key \in DOMAIN procedure_cache : to_rva(key) = Some(start)}
    IN  Unwrap(procedure_cache[CHOOSE key \in at : TRUE].inline_ranges)

\* ranges of one depth in the list that share an address
SameDepthOverlap(ranges) ==
    \E k, n \in 1 .. Len(ranges) :
        /\ k # n
        /\ ranges[k].call_depth = ranges[n].call_depth
        /\ RangeAddrs(ranges[k]) \cap RangeAddrs(ranges[n]) # {}

\* C18: for a procedure match at address A the number of inline frames is
\* the number of depths, from 0 on, at which some range holds A, also when
\* ranges of one depth overlap, and the frame of depth d stems from a range
\* of depth d that holds A.
C18_FramesForEveryCoveringDepth ==
    ProcedureFrames(res) =>
        LET ranges == MatchedInlineRanges(res)
            count == Len(res.picked)
        IN  /\ count = DepthsCovering(ranges, res.probe, 0)
            /\ Len(Unwrap(res.result.value).frames) = count + 1
            /\ \A i \in 1 .. count :
                  /\ res.picked[i].call_depth = count - i
                  /\ res.probe \in RangeAddrs(res.picked[i])
                  /\ \E k \in 1 .. Len(ranges) : ranges[k] = res.picked[i]

\* the same for lists without two ranges of one depth that share an address
C18_FramesForEveryCoveringDepthDisjoint ==
    (ProcedureFrames(res) /\ ~SameDepthOverlap(MatchedInlineRanges(res))) =>
        /\ Len(res.picked) = DepthsCovering(MatchedInlineRanges(res), res.probe, 0)
        /\ \A i \in 1 .. Len(res.picked) :
              /\ res.picked[i].call_depth = Len(res.picked) - i
              /\ res.probe \in RangeAddrs(res.picked[i])

\* two sibling sites, the second within the addresses of the first, and a
\* probe behind the second: no inline frame although the first holds it
C18_SiblingInsideSiblingMissed ==
    /\ ProcedureFrames(res)
    /\ res.picked = <<>>
    /\ LET ranges == MatchedInlineRanges(res)
       IN  /\ Len(ranges) = 2
           /\ ranges[1].call_depth = 0
           /\ ranges[2].call_depth = 0
           /\ ranges[1].start_offset < ranges[2].start_offset
           /\ ranges[2].end_offset <= res.probe
           /\ res.probe < ranges[1].end_offset

(***************************************************************************)
(* The line of the outer frame (specification SpecLines).  Module 0 owns   *)
(* section 1 and holds one typed procedure f over the whole section; its   *)
(* line records start at any offsets of the section, in ascending order as *)
(* the line program stores them, several of them possibly at one offset.   *)
(***************************************************************************)
AscendingOffsets ==
    {s \in SeqsUpTo(Offsets, SectionSize) :
        \A i \in 1 .. (Len(s) - 1) : s[i] <= s[i + 1]}

ModuleOfLines(starts) ==
    [stream |-> "ok",
     symbols |-> <<ProcedureSym(<<1, 0>>, SectionSize, "f", 1, 2), EndSym>>,
     line_program |-> <<[offset |-> <<1, 0>>,
                         lines |-> [k \in 1 .. Len(starts) |->
                                      LineInfo(<<1, starts[k]>>, None,
                                               1 + (k % 2), 10 + k)]]>>,
     inlinees |-> {},
     files |-> {1, 2}]

DatabasesLines ==
    {Database(<<Raw(0, 1, 0, SectionSize)>>, <<>>,
              ModuleOfLines(starts), EmptyModule) : starts \in AscendingOffsets}

InitLines == StartState(DatabasesLines, Builds, "off")

SpecLines == InitLines /\ [][NextInlines]_vars

\* the line records of the procedure that the call matched, as the debug
\* data give them
MatchedLineRecords(call, m) ==
    LET start == Unwrap(call.result.value).start_rva
        blocks == pdb.modules[m].line_program
        at == {i \in 1 .. Len(blocks) : to_rva(blocks[i].offset) = Some(start)}
    IN  IF at = {} THEN <<>> ELSE blocks[CHOOSE i \in at : TRUE].lines

\* the records that start at or below the probe
RecordsAtOrBelow(call, m) ==
    {k \in 1 .. Len(MatchedLineRecords(call, m)) :
        Unwrap(to_rva(MatchedLineRecords(call, m)[k].offset)) <= call.probe}

\* C19: for a procedure match at address A the file and line of the outer
\* frame are those of a line record with the greatest start <= A, and both
\* are absent when A precedes the first record or there is no record.
C19_OuterLineIsNearestRecordBelow ==
    ProcedureFrames(res) =>
        \A m \in Owners(res.probe) :
            LET frames == Unwrap(res.result.value).frames
                outer == frames[Len(frames)]
                records == MatchedLineRecords(res, m)
                below == RecordsAtOrBelow(res, m)
            IN  IF below = {}
                THEN outer.file = None /\ outer.line = None
                ELSE \E k \in below :
                        /\ \A n \in below : Unwrap(to_rva(records[n].offset))
                                              <= Unwrap(to_rva(records[k].offset))
                        /\ outer.line = Some(records[k].line_start)
                        /\ outer.file = resolve_filename(m, records[k].file_index)

\* a probe behind the start of the nearest of two records below it
C19_BetweenRecordsReached ==
    /\ ProcedureFrames(res)
    /\ \E m \in Owners(res.probe) :
          LET records == MatchedLineRecords(res, m)
          IN  /\ \E k, n \in RecordsAtOrBelow(res, m) :
                    records[k].offset # records[n].offset
              /\ \A k \in RecordsAtOrBelow(res, m) :
                    Unwrap(to_rva(records[k].offset)) < res.probe

\* a probe before the first record of a procedure that has records
C19_BeforeFirstRecordReached ==
    /\ ProcedureFrames(res)
    /\ \E m \in Owners(res.probe) :
          /\ MatchedLineRecords(res, m) # <<>>
          /\ RecordsAtOrBelow(res, m) = {}
    /\ Unwrap(res.result.value).frames[1].line = None

(***************************************************************************)
(* The public index (specification SpecPublics): any list of up to         *)
(* MaxPublics public symbols, at three offsets, with two names, one symbol *)
(* that is no function; no section contributions, no module symbols.       *)
(***************************************************************************)
PublicSymbols ==
    [offset : {<<1, 0>>, <<1, 1>>, <<2, 0>>}, name : {"?f", "g"}, function : {TRUE}]
    \cup {[offset |-> <<1, 0>>, name |-> "d", function |-> FALSE]}

DatabasesPublics(longest) ==
    {Database(<<>>, publics, EmptyModule, EmptyModule) :
        publics \in SeqsUpTo(PublicSymbols, longest)}

\* the construction makes no search: one build
InitPublics ==
    StartState(DatabasesPublics(MaxPublics), {[binary_search |-> "early_exit"]}, "off")

SpecPublics == InitPublics /\ [][NextSC]_vars

\* the positions in the input of the function symbols at a start offset
FunctionSymbolsAt(start_offset) ==
    {k \in 1 .. Len(pdb.publics) :
        pdb.publics[k].function /\ pdb.publics[k].offset = start_offset}

PublicIndexAscending ==
    \A i, j \in 1 .. Len(public_functions) :
        i < j => PairLess(public_functions[i].start_offset,
                          public_functions[j].start_offset)

\* C20 as stated: the public index ascends by (section, offset) with one
\* entry per offset, and of several function symbols at one offset the last
\* in input order is the one kept.
C20_LastOfEqualOffsetsKept ==
    context = "ok" =>
        /\ PublicIndexAscending
        /\ \A i \in 1 .. Len(public_functions) :
              LET at == FunctionSymbolsAt(public_functions[i].start_offset)
              IN  /\ at # {}
                  /\ public_functions[i].name =
                         pdb.publics[CHOOSE k \in at : \A n \in at : n <= k].name

\* C20, amended: the public index ascends by (section, offset) with one
\* entry per offset of a function symbol, and the entry of an offset is one
\* of the function symbols at that offset, not necessarily the last.
C20_OneOfEqualOffsetsKept ==
    context = "ok" =>
        /\ PublicIndexAscending
        /\ \A i \in 1 .. Len(public_functions) :
              \E k \in FunctionSymbolsAt(public_functions[i].start_offset) :
                  public_functions[i].name = pdb.publics[k].name
        /\ \A k \in 1 .. Len(pdb.publics) :
              pdb.publics[k].function =>
                  \E i \in 1 .. Len(public_functions) :
                      public_functions[i].start_offset = pdb.publics[k].offset

\* an index that keeps, of two function symbols at one offset, the one that
\* comes first in the input
C20_EarlierSymbolKeptReached ==
    /\ context = "ok"
    /\ \E i \in 1 .. Len(public_functions) :
          \E k, n \in FunctionSymbolsAt(public_functions[i].start_offset) :
              /\ k < n
              /\ pdb.publics[k].name = public_functions[i].name
              /\ \A later \in FunctionSymbolsAt(public_functions[i].start_offset) :
                    later > k => pdb.publics[later].name # public_functions[i].name

(***************************************************************************)
(* Ownership of the raw records (specification SpecSC).                    *)
(***************************************************************************)
\* the raw record i lies within a merged span of its module
RawRecordOwned(i) ==
    LET sc == pdb.contributions[i]
    IN  \E k \in 1 .. Len(section_contributions) :
           /\ section_contributions[k].section_index = sc.section
           /\ section_contributions[k].module_index = sc.module
           /\ section_contributions[k].start_offset <= sc.offset
           /\ sc.offset + sc.size <= section_contributions[k].end_offset

\* C23: after a successful construction every nonzero-size raw record lies
\* within a merged span of its own module, also when a later record of a run
\* starts below the run's first start, and the search of lookup_function, in
\* either loop, gives every byte of the record that module.
C23_RawRecordBytesOwned ==
    context = "ok" =>
        \A i \in 1 .. Len(pdb.contributions) :
            pdb.contributions[i].size # 0 =>
                /\ RawRecordOwned(i)
                /\ \A o \in pdb.contributions[i].offset
                              .. (pdb.contributions[i].offset
                                  + pdb.contributions[i].size - 1) :
                      \A hit \in EitherSearch(SectionContributionCmps(
                                     <<pdb.contributions[i].section, o>>)) :
                          /\ hit.found
                          /\ section_contributions[hit.index + 1].module_index
                                 = pdb.contributions[i].module

\* the starts of the nonzero-size records never decrease from one record to
\* the next of the same module and section
StartsAscendWithinRuns ==
    \A k \in 1 .. (Len(NonzeroRecords) - 1) :
        LET a == pdb.contributions[NonzeroRecords[k]]
            b == pdb.contributions[NonzeroRecords[k + 1]]
        IN  (a.module = b.module /\ a.section = b.section) => a.offset <= b.offset

\* the same for raw lists whose starts ascend within every run
C23_RawRecordBytesOwnedAscendingStarts ==
    (context = "ok" /\ StartsAscendWithinRuns) =>
        \A i \in 1 .. Len(pdb.contributions) :
            pdb.contributions[i].size # 0 => RawRecordOwned(i)

(***************************************************************************)
(* The inline tree walk, one symbol at a time (specification SpecWalk).    *)
(* compute_procedure_inline_ranges walks the symbols of the first          *)
(* procedure of module 0; every call of process_inlinee_symbols is a scope *)
(* with its end index.  symbols_iter holds the cursor (the index of the    *)
(* symbol that next() yields) and the end indices of the scopes entered,   *)
(* the innermost last.  The symbols between the procedure symbol and its   *)
(* End are any InlineSite, Procedure and End symbols, with any end index.  *)
(***************************************************************************)
\* compute_procedure_inline_ranges: symbols_at(proc.symbol_index), and the
\* first next() reads the procedure symbol
WalkBegin ==
    /\ symbols_iter.status = "none"
    /\ symbols_iter' = [status |-> "walking", cursor |-> 2,
                        scopes |-> <<pdb.modules[0].symbols[1].end>>]
    /\ UNCHANGED <<inputVars, source_ok, indexVars, cacheVars, full_rva_list,
                   iter, res, mark>>

\* the scope left: back in the loop of the caller, or the walk is over
LeaveScope(cursor) ==
    [status |-> IF Len(symbols_iter.scopes) = 1 THEN "done" ELSE "walking",
     cursor |-> cursor,
     scopes |-> SubSeq(symbols_iter.scopes, 1, Len(symbols_iter.scopes) - 1)]

\* one turn of `while let Some(symbol) = symbols_iter.next()?` in the
\* innermost scope
WalkStep ==
    /\ symbols_iter.status = "walking"
    /\ LET syms == pdb.modules[0].symbols
           cursor == symbols_iter.cursor
           end_index == symbols_iter.scopes[Len(symbols_iter.scopes)]
       IN  symbols_iter' =
              IF cursor > Len(syms) THEN LeaveScope(cursor)
              ELSE IF cursor >= end_index THEN LeaveScope(cursor + 1)
              ELSE IF syms[cursor].kind = "Procedure"
              THEN [symbols_iter EXCEPT !.cursor = skip_to(syms, syms[cursor].end)]
              ELSE IF syms[cursor].kind = "InlineSite"
              THEN IF Len(symbols_iter.scopes) >= MaxScopes
                   THEN [symbols_iter EXCEPT !.status = "overflow"]
                   ELSE [symbols_iter EXCEPT
                            !.cursor = cursor + 1,
                            !.scopes = Append(@, syms[cursor].end)]
              ELSE [symbols_iter EXCEPT !.cursor = cursor + 1]
    /\ UNCHANGED <<inputVars, source_ok, indexVars, cacheVars, full_rva_list,
                   iter, res, mark>>

NextWalk == WalkBegin \/ WalkStep

\* the symbols a walk may meet, with end indices up to the given one
WalkSymbols(last) ==
    {InlineSiteSym(1, e, <<>>) : e \in 0 .. last}
    \cup {ProcedureSym(<<1, 1>>, 1, "n", 1, e) : e \in 0 .. last}
    \cup {EndSym}

DatabasesWalk(longest) ==
    {Database(<<Raw(0, 1, 0, SectionSize)>>, <<>>,
              [EmptyModule EXCEPT !.symbols =
                  <<ProcedureSym(<<1, 0>>, SectionSize, "f", 1, Len(body) + 2)>>
                  \o body \o <<EndSym>>,
                                  !.inlinees = {1}],
              EmptyModule) :
        body \in SeqsUpTo(WalkSymbols(longest + 2), longest)}

InitWalk ==
    StartState(DatabasesWalk(MaxSymbols), {[binary_search |-> "early_exit"]}, "off")

SpecWalk == InitWalk /\ [][NextWalk]_vars

\* the walk goes on while it can
SpecWalkFair == SpecWalk /\ WF_vars(WalkBegin) /\ WF_vars(WalkStep)

\* C21: the inline tree walk terminates for every symbol sequence, malformed
\* nesting included.
C21_WalkTerminates == <>(symbols_iter.status = "done")

\* C21, the cursor: it never moves back.
C21_CursorNeverMovesBack ==
    [][symbols_iter'.cursor >= symbols_iter.cursor]_vars

\* C21, the scopes: the symbol read when a scope is left at its end index is
\* the one at that index, not a later one of the enclosing scope.
C21_ScopeLeftAtOwnEnd ==
    [][(/\ symbols_iter.status = "walking"
        /\ Len(symbols_iter'.scopes) < Len(symbols_iter.scopes)
        /\ symbols_iter'.cursor = symbols_iter.cursor + 1)
       => symbols_iter.cursor
              = symbols_iter.scopes[Len(symbols_iter.scopes)]]_vars

\* no Procedure symbol of the walk has its end index before itself
ProcedureEndsAhead ==
    \A i \in 2 .. Len(pdb.modules[0].symbols) :
        pdb.modules[0].symbols[i].kind = "Procedure" =>
            \/ pdb.modules[0].symbols[i].end = 0
            \/ pdb.modules[0].symbols[i].end >= i

\* the walk terminates when no nested Procedure points back
C21_WalkTerminatesWhenEndsAhead ==
    ProcedureEndsAhead => <>(symbols_iter.status = "done")

(***************************************************************************)
(* The per-procedure cache bundle (specification Spec).                    *)
(***************************************************************************)
\* the slots of the bundle at the key, an absent bundle having none filled
Slots(cache, key) ==
    IF key \in DOMAIN cache THEN cache[key] ELSE EmptyProcedureInfo

=============================================================================
